---- MODULE Spec2Model ----
(***************************************************************************)
(* Model of optimum-neuron's NeuronAccelerator                             *)
(* (src/optimum/neuron/accelerate/accelerator.py): model preparation       *)
(* under data-parallel and model-parallel topologies, optimizer            *)
(* preparation (parameter retargeting, ZeRO-1), checkpoint saving,         *)
(* gradient accumulation and postponed gradient clipping.                  *)
(*                                                                         *)
(* Three specifications share the module: Spec (prepare_model and          *)
(* prepare_optimizer), SpecSave (save_state) and SpecTrain (accumulate /   *)
(* backward / clip_grad_norm_ / optimizer step).                           *)
(***************************************************************************)
EXTENDS Integers, Sequences, FiniteSets, TLC

\* ------------------------------------------------------------------ bounds
\* Number of parameters of the dense model (names 1..NumParams).
NumParams == 2
\* Number of prepare_model calls made on the accelerator.
MaxPrepareCalls == 2

\* ------------------------------------------------------- parameter names
\* Name 0 is the tied alias (an LM head sharing the weight of name 1); the
\* names 1..NumParams are the dense model's parameters; the names
\* NumParams+1..2*NumParams are the fused GQA names of the same parameters.
OrigNames == 1..NumParams
AllNames == 1..(2 * NumParams)
Stride == 2 * NumParams + 1

\* Parameter objects are identified by id(): a CPU parameter, the parameter
\* a parallel layer creates for a name, and the object a move to the XLA
\* device creates from an object.
CpuObj(n) == n
ParObj(n) == n + Stride
DevOf(o) == o + 2 * Stride

EmptyMap == [x \in {} |-> 0]

\* dict.get(key, key)
DictGet(d, key) == IF key \in DOMAIN d THEN d[key] ELSE key

\* The name remappings a GQA transform reports: the last k parameters are
\* fused, each into its own fresh name.
FuseLast(k) == [n \in ((NumParams - k + 1)..NumParams) |-> n + NumParams]
Remaps == {FuseLast(k) : k \in 0..NumParams}

\* The names a transform that reports the renaming `names` is expected to
\* leave, and the name sets it may return: the expected set, or a set one
\* name short of it (a transform that lost a parameter, a pipeline stage
\* that does not hold it) or one name over it.
ExpectedNames(names) == {DictGet(names, n) : n \in OrigNames}
TransformOutcomes(names) ==
    {ExpectedNames(names)}
        \cup {ExpectedNames(names) \ {n} : n \in ExpectedNames(names)}
        \cup {ExpectedNames(names) \cup {n} : n \in AllNames}

Prepared_Never(ms, m) == FALSE

\* model in self._models
Prepared(ms, m) == \E i \in 1..Len(ms) : ms[i] = m

VARIABLES
    acc,        \* the accelerator's configuration (state.distributed_type, zero_1, ...)
    model,      \* the model handed to prepare_model
    pc,         \* position inside prepare_model
    call,       \* arguments of the running prepare_model call
    cpu_ids,    \* _prepare_model_for_mp: name -> id(param) snapshot
    tied,       \* _prepare_model_for_mp: tied_parameters_dict is non-empty
    trace,      \* steps the running / last prepare_model call executed
    err,        \* exception raised by the last call ("none" if it returned)
    models,     \* self._models
    optimizers, \* self._optimizers
    cpu2xla,    \* self._model_cpu_parameters_to_xla: model -> (id -> param)
    optimizer,  \* the optimizer the caller built
    handed,     \* what prepare_optimizer passed to the framework wrap (and
                \* whether the model was prepared by then)
    wrapArg,    \* device_placement: given by the caller, passed to the
                \* framework prepare_model
    ncalls      \* prepare_model calls made so far

prepVars == <<acc, model, pc, call, cpu_ids, tied, trace, err, models, optimizers,
              cpu2xla, optimizer, handed, wrapArg, ncalls>>

\* ------------------------------------------------------------ prepare_model
\* model.named_parameters(): the names under which the model holds a
\* parameter (a tied alias is listed only while its tie is broken).
NamedParameters(m) == DOMAIN m.np

\* move_model_to_device / NxDPPModel.move_model_to_device: parameters of a
\* model that is not yet on the device are moved; the XLA backend either
\* updates a parameter in place or replaces it by a new object.
MoveModelToDevice(m, inplace) ==
    IF m.onDevice THEN m
    ELSE [m EXCEPT !.onDevice = TRUE,
                   !.np = [n \in DOMAIN m.np |->
                              IF inplace THEN m.np[n] ELSE DevOf(m.np[n])]]

\* cpu_ids = {name: id(param) for name, param in model.named_parameters()}
SnapshotCpuIds(m) == [n \in NamedParameters(m) |-> m.np[n]]

\* The keys of a dict in iteration order (named_parameters order).
RECURSIVE SortedSeq(_)
SortedSeq(S) ==
    IF S = {} THEN <<>>
    ELSE LET lo == CHOOSE x \in S : \A y \in S : x <= y
         IN  <<lo>> \o SortedSeq(S \ {lo})

\* for key in list(cpu_ids.keys()):
\*     cpu_ids[names.get(key, key)] = cpu_ids.pop(key)
RECURSIVE RekeyLoop(_, _, _)
RekeyLoop(ids, keys, names) ==
    IF keys = <<>> THEN ids
    ELSE LET key == Head(keys)
             val == ids[key]
             new == DictGet(names, key)
             popped == [k \in (DOMAIN ids) \ {key} |-> ids[k]]
             put == [k \in (DOMAIN popped) \cup {new} |->
                        IF k = new THEN val ELSE popped[k]]
         IN  RekeyLoop(put, Tail(keys), names)

RekeyCpuIds_Skipped(ids, names) == ids

RekeyCpuIds(ids, names) == RekeyLoop(ids, SortedSeq(DOMAIN ids), names)

\* Mutant of TieParameters: the tie broken by the transform is never restored.
TieParameters_Skipped(m, tiedDict) == m

\* tie_parameters(model, tied_parameters_dict): the alias shares the weight
\* of its target again and is no longer listed on its own.
TieParameters(m, tiedDict) ==
    IF tiedDict THEN [m EXCEPT !.np = [n \in (DOMAIN m.np) \ {0} |-> m.np[n]]]
    ELSE m

\* set(cpu_ids.keys()).symmetric_difference(xla_params.keys())
SymmetricDiff(A, B) == (A \ B) \cup (B \ A)

\* Mutant of ChecksNames: the name check is never made.
ChecksNames_Never(m) == FALSE

\* Whether the post-transform name check is made: only for a model that is
\* not an NxDPPModel.
ChecksNames(m) == ~m.isPP

\* {cpu_ids[name]: xla_params[name] for name, _ in model.named_parameters()}
CpuToXla(ids, m) ==
    [i \in {ids[n] : n \in NamedParameters(m)} |->
        LET last == CHOOSE n \in NamedParameters(m) :
                        /\ ids[n] = i
                        /\ \A k \in NamedParameters(m) : ids[k] = i => k <= n
        IN  m.np[last]]

\* Mutant of WrapDevicePlacement: the caller's value is passed on.
WrapDevicePlacement_AsGiven(dp) == dp

\* device_placement = False before the framework's prepare_model
WrapDevicePlacement(dp) == "False"

Models == {[np |-> [n \in OrigNames |-> CpuObj(n)], custom |-> c, wasPar |-> w,
            onDevice |-> d, hasTie |-> t, isPP |-> FALSE, gqa |-> EmptyMap] :
              c \in BOOLEAN, w \in BOOLEAN, d \in BOOLEAN, t \in BOOLEAN}

Accelerators == {a \in [dist : {"MP", "DDP"}, pp : BOOLEAN, zero_1 : BOOLEAN,
                        mixed : {"no", "bf16", "fp16"}, inplace : BOOLEAN] :
                    a.pp => a.dist = "MP"}

NoOptimizer == [kind |-> "none"]

\* The arguments of a prepare_model call: device_placement, and whether the
\* model it was given had already been parallelized.
NewCall(dp, m) == [dp |-> dp, wasPar |-> m.wasPar]

\* A call that returned: its arguments are gone.
EndCall(c) == [c EXCEPT !.dp = "None"]

NoWrap == [given |-> "None", passed |-> "unset"]

InitPrepare ==
    /\ acc \in Accelerators
    /\ model \in {m \in Models : m.custom => ~m.wasPar}
    /\ pc = "idle"
    /\ call = [dp |-> "None", wasPar |-> FALSE]
    /\ cpu_ids = EmptyMap
    /\ tied = FALSE
    /\ trace = <<>>
    /\ err = "none"
    /\ models = <<>>
    /\ optimizers = <<>>
    /\ cpu2xla = EmptyMap
    /\ optimizer = NoOptimizer
    /\ handed = NoOptimizer
    /\ wrapArg = NoWrap
    /\ ncalls = 0

\* prepare_model up to the topology dispatch: the early return for a model
\* that was already prepared, the custom-modeling branch, the patches.
PrepareModel_Enter(dp) ==
    /\ pc = "idle"
    /\ ncalls < MaxPrepareCalls
    /\ ncalls' = ncalls + 1
    /\ err' = "none"
    /\ IF Prepared(models, 1)
       THEN /\ trace' = <<"already_prepared">>
            /\ pc' = "idle"
            /\ call' = EndCall(NewCall(dp, model))
       ELSE IF model.custom
       THEN /\ trace' = <<>>
            /\ pc' = "custom"
            /\ call' = NewCall(dp, model)
       ELSE /\ trace' = <<"patch">>
            /\ pc' = IF acc.dist = "MP" THEN "mp" ELSE "ddp"
            /\ call' = NewCall(dp, model)
    /\ UNCHANGED <<acc, model, cpu_ids, tied, models, optimizers, cpu2xla, optimizer, handed, wrapArg>>

\* The custom-modeling branch: move, then the framework wrap.
PrepareModel_CustomMove ==
    /\ pc = "custom"
    /\ model' = MoveModelToDevice(model, acc.inplace)
    /\ trace' = Append(trace, "move")
    /\ pc' = "wrap_custom"
    /\ UNCHANGED <<acc, call, cpu_ids, tied, err, models, optimizers, cpu2xla, optimizer, handed,
                   wrapArg, ncalls>>

PrepareModel_CustomWrap ==
    /\ pc = "wrap_custom"
    /\ wrapArg' = [given |-> call.dp, passed |-> "False"]
    /\ models' = IF Prepared(models, 1) THEN models ELSE Append(models, 1)
    /\ trace' = Append(trace, "wrap")
    /\ pc' = "idle"
    /\ call' = EndCall(call)
    /\ UNCHANGED <<acc, model, cpu_ids, tied, err, optimizers, cpu2xla, optimizer, handed,
                   ncalls>>

\* _prepare_model_for_mp: early return, or the snapshot of the CPU ids and
\* of the tied parameters.
PrepareModelForMp_Enter ==
    /\ pc = "mp"
    /\ IF Prepared(models, 1) \/ model.wasPar
       THEN /\ pc' = "wrap"
            /\ trace' = Append(trace, "was_parallelized")
            /\ UNCHANGED <<cpu_ids, tied>>
       ELSE /\ cpu_ids' = SnapshotCpuIds(model)
            /\ tied' = model.hasTie
            /\ trace' = Append(trace, "snapshot")
            /\ pc' = "transform"
    /\ UNCHANGED <<acc, model, call, err, models, optimizers, cpu2xla, optimizer, handed, wrapArg, ncalls>>

\* trn_config.parallelize_model: the transform returns a model holding new
\* parameters under the names T (a pipeline-parallel result lists its local
\* names), reports the GQA renaming it made, and may break the tie.
PrepareModelForMp_Transform ==
    /\ pc = "transform"
    /\ \E names \in Remaps, broken \in BOOLEAN : \E T \in TransformOutcomes(names) :
        /\ broken => model.hasTie
        /\ model' = [model EXCEPT
                        !.np = [n \in T \cup (IF broken THEN {0} ELSE {}) |-> ParObj(n)],
                        !.wasPar = TRUE,
                        !.isPP = acc.pp,
                        !.gqa = names]
    /\ trace' = Append(trace, "transform")
    /\ pc' = "rekey"
    /\ UNCHANGED <<acc, call, cpu_ids, tied, err, models, optimizers, cpu2xla, optimizer, handed,
                   wrapArg, ncalls>>

PrepareModelForMp_TransformRaises_Recorded ==
    /\ pc = "transform"
    /\ err' = "TransformError"
    /\ pc' = "idle"
    /\ call' = EndCall(call)
    /\ models' = Append(models, 1)
    /\ cpu2xla' = [k \in (DOMAIN cpu2xla) \cup {1} |-> EmptyMap]
    /\ UNCHANGED <<acc, model, cpu_ids, tied, trace, optimizers, optimizer,
                   handed, wrapArg, ncalls>>

\* A transform rule raises a fatal configuration error.
PrepareModelForMp_TransformRaises ==
    /\ pc = "transform"
    /\ err' = "TransformError"
    /\ pc' = "idle"
    /\ call' = EndCall(call)
    /\ UNCHANGED <<acc, model, cpu_ids, tied, trace, models, optimizers, cpu2xla, optimizer,
                   handed, wrapArg, ncalls>>

PrepareModelForMp_Rekey ==
    /\ pc = "rekey"
    /\ cpu_ids' = RekeyCpuIds(cpu_ids, model.gqa)
    /\ trace' = Append(trace, "rekey")
    /\ pc' = "move"
    /\ UNCHANGED <<acc, model, call, tied, err, models, optimizers, cpu2xla, optimizer, handed,
                   wrapArg, ncalls>>

PrepareModelForMp_Move ==
    /\ pc = "move"
    /\ model' = MoveModelToDevice(model, acc.inplace)
    /\ trace' = Append(trace, "move")
    /\ pc' = "tie"
    /\ UNCHANGED <<acc, call, cpu_ids, tied, err, models, optimizers, cpu2xla, optimizer, handed,
                   wrapArg, ncalls>>

PrepareModelForMp_Tie ==
    /\ pc = "tie"
    /\ model' = TieParameters(model, tied)
    /\ trace' = Append(trace, "tie")
    /\ pc' = "record"
    /\ UNCHANGED <<acc, call, cpu_ids, tied, err, models, optimizers, cpu2xla, optimizer, handed,
                   wrapArg, ncalls>>

\* The name check (when made) and the record of the CPU-id -> XLA-parameter
\* mapping.
PrepareModelForMp_Record ==
    /\ pc = "record"
    /\ IF ChecksNames(model) /\ SymmetricDiff(DOMAIN cpu_ids, NamedParameters(model)) # {}
       THEN /\ err' = "ValueError"
            /\ pc' = "idle"
            /\ call' = EndCall(call)
            /\ UNCHANGED <<cpu2xla, trace>>
       ELSE IF ~(NamedParameters(model) \subseteq DOMAIN cpu_ids)
       THEN /\ err' = "KeyError"
            /\ pc' = "idle"
            /\ call' = EndCall(call)
            /\ UNCHANGED <<cpu2xla, trace>>
       ELSE /\ cpu2xla' = [k \in (DOMAIN cpu2xla) \cup {1} |->
                              IF k = 1 THEN CpuToXla(cpu_ids, model) ELSE cpu2xla[k]]
            /\ trace' = Append(trace, "record")
            /\ pc' = "wrap"
            /\ UNCHANGED <<err, call>>
    /\ UNCHANGED <<acc, model, cpu_ids, tied, models, optimizers, optimizer, handed, wrapArg, ncalls>>

\* The unsharded branch: move to the device.
PrepareModel_DdpMove ==
    /\ pc = "ddp"
    /\ model' = MoveModelToDevice(model, acc.inplace)
    /\ trace' = Append(trace, "move")
    /\ pc' = "wrap"
    /\ UNCHANGED <<acc, call, cpu_ids, tied, err, models, optimizers, cpu2xla, optimizer, handed,
                   wrapArg, ncalls>>

\* device_placement = False; super().prepare_model(...), which adds the
\* model to self._models.
PrepareModel_Wrap ==
    /\ pc = "wrap"
    /\ wrapArg' = [given |-> call.dp, passed |-> WrapDevicePlacement(call.dp)]
    /\ models' = IF Prepared(models, 1) THEN models ELSE Append(models, 1)
    /\ trace' = Append(trace, "wrap")
    /\ pc' = "idle"
    /\ call' = EndCall(call)
    /\ UNCHANGED <<acc, model, cpu_ids, tied, err, optimizers, cpu2xla, optimizer, handed,
                   ncalls>>

\* -------------------------------------------------------- prepare_optimizer
\* The parameter groups get_optimizer builds: two groups (even and odd
\* positions of model.parameters()) or a single group.
ParamGroups(m, withGroups) ==
    LET idx(n) == Cardinality({k \in NamedParameters(m) : k < n})
        at(r) == {m.np[n] : n \in {k \in NamedParameters(m) : idx(k) % 2 = r}}
    IN  IF withGroups THEN <<at(0), at(1)>> ELSE <<{m.np[n] : n \in NamedParameters(m)}>>

\* An optimizer: a lazily constructed one keeps its constructor arguments
\* (_args_to_recreate) and holds no parameter groups of its own yet.
NewOptimizer(lazy, groups, after) ==
    [kind |-> "base", lazy |-> lazy,
     args |-> IF lazy THEN groups ELSE <<>>,
     param_groups |-> IF lazy THEN <<>> ELSE groups,
     builtAfter |-> after, preparedAfter |-> FALSE]

\* optimizer.__class__(*args, **kwargs)
Recreate(opt) == [opt EXCEPT !.lazy = FALSE, !.args = <<>>, !.param_groups = opt.args]

\* collections.ChainMap(*self._model_cpu_parameters_to_xla.values()): the
\* first map that holds a key answers for it.
ChainMap(maps) ==
    [i \in UNION {DOMAIN maps[k] : k \in DOMAIN maps} |->
        LET first == CHOOSE k \in DOMAIN maps :
                        /\ i \in DOMAIN maps[k]
                        /\ \A j \in DOMAIN maps : i \in DOMAIN maps[j] => k <= j
        IN  maps[first][i]]

\* The parameters an optimizer was given: its constructor arguments when it
\* is lazy, its parameter groups otherwise.
GivenGroups(opt) == IF opt.lazy THEN opt.args ELSE opt.param_groups

GroupParams(groups) == UNION {groups[g] : g \in DOMAIN groups}

\* Parallelizer.optimizer_cpu_params_to_xla_params: every parameter of every
\* group is replaced by the XLA parameter recorded for its id.
CpuParamsToXlaParams(opt, map) ==
    [g \in DOMAIN GivenGroups(opt) |-> {map[o] : o \in GivenGroups(opt)[g]}]

CanRetarget(opt, map) == GroupParams(GivenGroups(opt)) \subseteq DOMAIN map

\* Parallelizer.optimizer_for_mp: an optimizer of the same class over the
\* retargeted parameters.
OptimizerForMp(opt, map) ==
    [opt EXCEPT !.lazy = FALSE, !.args = <<>>, !.param_groups = CpuParamsToXlaParams(opt, map)]

\* _prepare_optimizer_for_mp
PrepareOptimizerForMp(opt, zero_1, map) ==
    IF ~zero_1 THEN OptimizerForMp(opt, map)
    ELSE IF opt.lazy THEN [opt EXCEPT !.args = CpuParamsToXlaParams(opt, map)]
    ELSE [opt EXCEPT !.param_groups = CpuParamsToXlaParams(opt, map)]

\* mixed_precision_to_dtype.get(self.state.mixed_precision, None) is not None
Zero1SupportsPrecision(mixed) == mixed \in {"no", "bf16"}

\* Mutant of PrepareOptimizerForZero1: the parameter groups of the optimizer
\* are used even when it is lazy and holds none yet.
PrepareOptimizerForZero1_IgnoresArgs(opt) ==
    [opt EXCEPT !.kind = "zero1", !.lazy = FALSE, !.args = <<>>]

\* _prepare_optimizer_for_zero_1 past the precision check: a
\* NeuronZero1Optimizer over the constructor arguments of a lazy optimizer,
\* over the parameter groups of an eager one.
PrepareOptimizerForZero1(opt) ==
    [opt EXCEPT !.kind = "zero1", !.lazy = FALSE, !.args = <<>>,
                !.param_groups = GivenGroups(opt)]

\* Whether prepare_optimizer hands the optimizer on untouched: exactly one
\* model is prepared and it is a custom-modeling model.
CustomModelingShortcut(ms, m) == Len(ms) = 1 /\ m.custom

\* Whether the ZeRO-1 step of prepare_optimizer runs.
RunsZero1(a) == a.zero_1

\* Whether the retargeting step of prepare_optimizer runs.
RunsMp(a) == a.dist = "MP"

\* The caller builds an optimizer over the model's current parameters.
MakeOptimizer(lazy, withGroups) ==
    /\ pc = "idle"
    /\ optimizer = NoOptimizer
    /\ optimizer' = NewOptimizer(lazy, ParamGroups(model, withGroups), Prepared(models, 1))
    /\ UNCHANGED <<acc, model, pc, call, cpu_ids, tied, trace, err, models, optimizers, cpu2xla,
                   handed, wrapArg, ncalls>>

\* prepare_optimizer, whole: the custom-modeling shortcut, the retargeting
\* under model parallelism, ZeRO-1, the late construction of a lazy
\* optimizer, the framework wrap.
PrepareOptimizer ==
    /\ pc = "idle"
    /\ optimizer # NoOptimizer
    /\ handed = NoOptimizer
    /\ LET map == ChainMap(cpu2xla)
           afterMp == IF RunsMp(acc)
                      THEN PrepareOptimizerForMp(optimizer, acc.zero_1, map)
                      ELSE optimizer
           afterZero == IF RunsZero1(acc) THEN PrepareOptimizerForZero1(afterMp) ELSE afterMp
           final == IF afterZero.lazy THEN Recreate(afterZero) ELSE afterZero
       IN  IF CustomModelingShortcut(models, model)
           THEN /\ handed' = [optimizer EXCEPT !.preparedAfter = Prepared(models, 1)]
                /\ optimizers' = Append(optimizers, handed')
                /\ err' = "none"
           ELSE IF RunsMp(acc) /\ ~CanRetarget(optimizer, map)
           THEN /\ err' = "KeyError"
                /\ UNCHANGED <<handed, optimizers>>
           ELSE IF RunsZero1(acc) /\ ~Zero1SupportsPrecision(acc.mixed)
           THEN /\ err' = "ValueError"
                /\ UNCHANGED <<handed, optimizers>>
           ELSE /\ handed' = [final EXCEPT !.preparedAfter = Prepared(models, 1)]
                /\ optimizers' = Append(optimizers, handed')
                /\ err' = "none"
    /\ trace' = <<"prepare_optimizer">>
    /\ UNCHANGED <<acc, model, pc, call, cpu_ids, tied, models, cpu2xla, optimizer,
                   wrapArg, ncalls>>

NextPrepare ==
    \/ \E dp \in {"None", "True", "False"} : PrepareModel_Enter(dp)
    \/ PrepareModel_CustomMove
    \/ PrepareModel_CustomWrap
    \/ PrepareModelForMp_Enter
    \/ PrepareModelForMp_Transform
    \/ PrepareModelForMp_TransformRaises
    \/ PrepareModelForMp_Rekey
    \/ PrepareModelForMp_Move
    \/ PrepareModelForMp_Tie
    \/ PrepareModelForMp_Record
    \/ PrepareModel_DdpMove
    \/ PrepareModel_Wrap
    \/ \E lazy \in BOOLEAN, withGroups \in BOOLEAN : MakeOptimizer(lazy, withGroups)
    \/ PrepareOptimizer

\* --------------------------------------------------------------- save_state
\* The checkpoint folders of <project_dir>/checkpoints are named
\* checkpoint_<n>; a folder is modelled by its number n.
MaxModels == 2
MaxOptimizers == 2
MaxIter == 3
MaxLimit == 2

VARIABLES
    fs,         \* the numbers n of the folders checkpoint_<n> that exist
    userDir,    \* whether the directory a caller names as output_dir exists
    iteration,  \* self.project_configuration.iteration (self.save_iteration)
    config,     \* automatic_checkpoint_naming and total_limit
    saved       \* what the last save_state call did

saveVars == <<fs, userDir, iteration, config, saved>>

Min(a, b) == IF a <= b THEN a ELSE b

\* folders[: len(folders) + 1 - total_limit] after folders.sort(key=_inner)
FoldersToDelete(folders, total_limit) ==
    LET sorted == SortedSeq(folders)
        stop == Len(sorted) + 1 - total_limit
        k == IF stop < 0 THEN 0 ELSE Min(stop, Len(sorted))
    IN {sorted[i] : i \in 1..k}

Pruned_Never(folders, cfg) == {}

\* The folders removed to make room for the new checkpoint.
Pruned(folders, cfg) ==
    IF cfg.limited /\ Cardinality(folders) + 1 > cfg.total_limit
    THEN FoldersToDelete(folders, cfg.total_limit)
    ELSE {}

\* os.path.exists(output_dir) for checkpoint_<save_iteration>
TargetExists(folders, n) == n \in folders

\* save_state_for_mp passes no save_model_func.
SaveModelFuncIsNone(a) == a.dist = "MP"

\* The list the optimizer loop runs over.
OptimizersToSave(ms, opts, noModelFunc) ==
    IF opts = <<>> /\ noModelFunc
    THEN [i \in 1..Len(ms) |-> NoOptimizer]
    ELSE opts

\* save_optimizer_func(self, opt, self._models[i], output_dir, i) for each
\* optimizer of the list, up to the first index self._models does not have;
\* under model parallelism each is one sharded save of model and optimizer.
ShardedSaves(ms, list) ==
    [i \in 1..Min(Len(list), Len(ms)) |-> [model |-> ms[i], optimizer |-> list[i]]]

\* self._models[i] with i past the end of the list
LoopRaises(ms, list) == Len(list) > Len(ms)

\* weights = [] and optimizers = [] handed to save_accelerator_state
GenericSaverArgs(ms, opts) == [called |-> TRUE, weights |-> <<>>, optimizers |-> <<>>]

NoGenericSave == [called |-> FALSE, weights |-> <<>>, optimizers |-> <<>>]

NoSave == [called |-> FALSE, auto |-> FALSE, target |-> 0, existedAtCall |-> FALSE,
           existedAtCheck |-> FALSE, pruned |-> {}, created |-> FALSE, shards |-> <<>>,
           generic |-> NoGenericSave, err |-> "none", iterBefore |-> 0]

\* No clipping is waiting for the optimizer step.
NoClip == [set |-> FALSE, parameters |-> {}, max_norm |-> 0, norm_type |-> 0]

PreparedOptimizer(i) == [kind |-> "prepared", index |-> i, clip |-> NoClip]

SaveConfigs == {[auto |-> a, limited |-> l, total_limit |-> t] :
                  a \in BOOLEAN, l \in BOOLEAN, t \in 1..MaxLimit}

\* No checkpoint has been written and none is configured.
InitSaveVars ==
    /\ fs = {}
    /\ userDir = FALSE
    /\ iteration = 0
    /\ config = [auto |-> FALSE, limited |-> FALSE, total_limit |-> 1]
    /\ saved = NoSave

\* An accelerator under model parallelism with some prepared models and
\* optimizers, a project directory that earlier runs may have left folders
\* in, and an iteration counter the project configuration starts anywhere.
InitSave ==
    /\ acc \in {a \in Accelerators : a.dist = "MP" /\ ~a.zero_1 /\ a.mixed = "no" /\ ~a.inplace}
    /\ model \in {m \in Models : ~m.custom /\ ~m.wasPar /\ ~m.onDevice /\ ~m.hasTie}
    /\ pc = "idle"
    /\ call = [dp |-> "None", wasPar |-> FALSE]
    /\ cpu_ids = EmptyMap
    /\ tied = FALSE
    /\ trace = <<>>
    /\ err = "none"
    /\ models \in {[i \in 1..n |-> i] : n \in 0..MaxModels}
    /\ optimizers \in {[i \in 1..n |-> PreparedOptimizer(i)] : n \in 0..MaxOptimizers}
    /\ cpu2xla = EmptyMap
    /\ optimizer = NoOptimizer
    /\ handed = NoOptimizer
    /\ wrapArg = NoWrap
    /\ ncalls = 0
    /\ fs \in SUBSET (0..(MaxIter - 1))
    /\ userDir \in BOOLEAN
    /\ iteration \in 0..(MaxIter - 1)
    /\ config \in {c \in SaveConfigs : ~c.limited => c.total_limit = 1}
    /\ saved = NoSave

\* save_state under model parallelism: save_state_for_mp and the whole of
\* _custom_save_state. given tells whether the caller passed an output_dir.
SaveState(given) ==
    LET auto == config.auto
        removed == IF auto THEN Pruned(fs, config) ELSE {}
        kept == fs \ removed
        exists == auto /\ TargetExists(kept, iteration)
        list == OptimizersToSave(models, optimizers, SaveModelFuncIsNone(acc))
        call0 == [NoSave EXCEPT !.called = TRUE, !.auto = auto, !.target = iteration,
                                !.existedAtCall = (auto /\ iteration \in fs),
                                !.iterBefore = iteration]
    IN
    /\ acc.dist = "MP"
    /\ iteration < MaxIter
    /\ IF ~auto /\ ~given
       THEN /\ saved' = [call0 EXCEPT !.err = "ValueError"]
            /\ UNCHANGED <<fs, userDir, iteration>>
       ELSE IF exists
       THEN /\ saved' = [call0 EXCEPT !.err = "ValueError", !.pruned = removed,
                                      !.existedAtCheck = (iteration \in kept)]
            /\ fs' = kept
            /\ UNCHANGED <<userDir, iteration>>
       ELSE /\ fs' = IF auto THEN kept \cup {iteration} ELSE fs
            /\ userDir' = IF auto THEN userDir ELSE TRUE
            /\ IF LoopRaises(models, list)
               THEN /\ saved' = [call0 EXCEPT !.err = "IndexError", !.pruned = removed,
                                              !.existedAtCheck = (auto /\ iteration \in kept),
                                              !.created = TRUE,
                                              !.shards = ShardedSaves(models, list)]
                    /\ UNCHANGED iteration
               ELSE /\ saved' = [call0 EXCEPT !.pruned = removed,
                                              !.existedAtCheck = (auto /\ iteration \in kept),
                                              !.created = TRUE,
                                              !.shards = ShardedSaves(models, list),
                                              !.generic = GenericSaverArgs(models, list)]
                    /\ iteration' = iteration + 1
    /\ UNCHANGED <<config, prepVars>>

NextSave ==
    \E given \in BOOLEAN : SaveState(given)

\* ------------------------------------ gradient accumulation and clipping
MaxAccum == 3
MaxSteps == 4

Losses == {1, 2}
MaxNorms == {1, 3}
NormTypes == {1, 2}

VARIABLES
    ctor,        \* the gradient accumulation arguments the accelerator was built with
    gas,         \* self.gradient_accumulation_steps
    step,        \* the number of training steps entered so far
    sync,        \* gradient_state.sync_gradients
    phase,       \* the position inside the current training step
    params,      \* the value of every parameter
    grads,       \* the gradient buffer of every parameter
    orig,        \* the parameters when the current training step began
    backwardArg, \* the loss given to backward and the loss it back-propagated
    clipCall,    \* what the last clip_grad_norm_ call of this step did
    applied      \* the clipping the last optimizer step performed

trainVars == <<ctor, gas, step, sync, phase, params, grads, orig, backwardArg, clipCall,
               applied>>

ParamIds == 1..NumParams
Zeros == [i \in ParamIds |-> 0]

\* The arguments of NeuronAccelerator(...): either a plugin with num_steps,
\* or gradient_accumulation_steps (whose default is 1).
CtorArgs == {[plugin |-> TRUE, num_steps |-> n, steps |-> 1] : n \in 1..MaxAccum}
            \cup {[plugin |-> FALSE, num_steps |-> 1, steps |-> n] : n \in 1..MaxAccum}

\* The step count the caller asked for.
Requested(args) == IF args.plugin THEN args.num_steps ELSE args.steps

\* num_steps as __init__ computes it
NumSteps(args) ==
    IF args.plugin THEN args.num_steps
    ELSE IF args.steps # 1 THEN args.steps
    ELSE 1

\* What the framework's constructor is given, and so starts from: the
\* plugin's num_steps set to 1, or gradient_accumulation_steps set to 1.
SuperInitSteps(args) ==
    IF args.plugin THEN 1
    ELSE IF args.steps # 1 THEN 1
    ELSE args.steps

\* Mutant of RestoredSteps: the step count is not restored after the
\* framework's constructor.
RestoredSteps_Forgotten(num_steps, base) == base

\* if num_steps != 1: self.gradient_accumulation_steps = num_steps
RestoredSteps(num_steps, base) == IF num_steps # 1 THEN num_steps ELSE base

\* self.gradient_accumulation_steps after __init__
Construct(args) == RestoredSteps(NumSteps(args), SuperInitSteps(args))

\* loss / self.gradient_accumulation_steps, unless under DeepSpeed
ScaledLoss(loss, a, n) == IF a.dist # "DEEPSPEED" THEN loss \div n ELSE loss

\* The gradient a back-propagated loss adds to each parameter's buffer.
GradOf(loss) == [i \in ParamIds |-> IF i % 2 = 1 THEN loss * i ELSE -(loss * i)]

\* accumulate(): the (step + 1)-th training step syncs gradients iff step + 1
\* is a multiple of the accumulation step count.
IsOptimizerUpdateStep(s, n) == (s + 1) % n = 0

Abs(x) == IF x < 0 THEN -x ELSE x

RECURSIVE SumOver(_, _)
SumOver(f, S) ==
    IF S = {} THEN 0
    ELSE LET x == CHOOSE y \in S : TRUE IN f[x] + SumOver(f, S \ {x})

\* The least r with r * r >= n.
CeilSqrt(n) == CHOOSE r \in 0..n : r * r >= n /\ (r = 0 \/ (r - 1) * (r - 1) < n)

\* The norm of the gradients of ps, rounded up to an integer.
TotalNorm(g, ps, norm_type) ==
    IF norm_type = 1
    THEN SumOver([i \in ps |-> Abs(g[i])], ps)
    ELSE CeilSqrt(SumOver([i \in ps |-> g[i] * g[i]], ps))

\* The gradients of ps scaled by max_norm / total_norm when the norm is over
\* max_norm, each rounded towards zero.
ClipGradNorm(g, ps, max_norm, norm_type) ==
    LET total == TotalNorm(g, ps, norm_type) IN
    IF total <= max_norm THEN g
    ELSE [i \in DOMAIN g |->
            IF i \notin ps THEN g[i]
            ELSE IF g[i] < 0 THEN -((Abs(g[i]) * max_norm) \div total)
            ELSE (g[i] * max_norm) \div total]

WithinNorm(g, ps, max_norm, norm_type) ==
    IF norm_type = 1
    THEN SumOver([i \in ps |-> Abs(g[i])], ps) <= max_norm
    ELSE SumOver([i \in ps |-> g[i] * g[i]], ps) <= max_norm * max_norm

\* The gradients the parameters carry after an update step of an optimizer
\* that has a clipping registered. The plain optimizer clips them in place
\* before it updates. Under ZeRO-1 the clipping is left to the wrapped
\* optimizer, and the test of the optimizer step skips that combination
\* because the clipping does not work properly: either outcome can be seen.
StepGradients(a, g, clip) ==
    IF ~clip.set THEN {g}
    ELSE IF a.zero_1 THEN {ClipGradNorm(g, clip.parameters, clip.max_norm, clip.norm_type), g}
    ELSE {ClipGradNorm(g, clip.parameters, clip.max_norm, clip.norm_type)}

\* len(self._optimizers) > 1
TooManyOptimizers(opts) == Len(opts) > 1

\* prepare_clip_grad_norm(parameters, max_norm, norm_type=norm_type)
PrepareClipGradNorm(opt, ps, max_norm, norm_type) ==
    [opt EXCEPT !.clip = [set |-> TRUE, parameters |-> ps, max_norm |-> max_norm,
                          norm_type |-> norm_type]]

NoBackward == [loss |-> 0, scaled |-> 0]
NoClipCall == [called |-> FALSE, postponed |-> FALSE, given |-> NoClip, before |-> Zeros,
               err |-> "none"]
NothingApplied == [done |-> FALSE, clip |-> NoClip, before |-> Zeros]

\* No accelerator is training.
InitTrainVars ==
    /\ ctor = [plugin |-> FALSE, num_steps |-> 1, steps |-> 1]
    /\ gas = 1
    /\ step = 0
    /\ sync = FALSE
    /\ phase = "idle"
    /\ params = Zeros
    /\ grads = Zeros
    /\ orig = Zeros
    /\ backwardArg = NoBackward
    /\ clipCall = NoClipCall
    /\ applied = NothingApplied

\* An accelerator built with some accumulation arguments, one prepared
\* model and some prepared optimizers, before the first training step.
InitTrain ==
    /\ acc \in {a \in Accelerators : ~a.pp /\ a.mixed = "no" /\ ~a.inplace}
    /\ model \in {m \in Models : ~m.custom /\ ~m.wasPar /\ ~m.onDevice /\ ~m.hasTie}
    /\ pc = "idle"
    /\ call = [dp |-> "None", wasPar |-> FALSE]
    /\ cpu_ids = EmptyMap
    /\ tied = FALSE
    /\ trace = <<>>
    /\ err = "none"
    /\ models = <<1>>
    /\ optimizers \in {[i \in 1..n |-> PreparedOptimizer(i)] : n \in 0..MaxOptimizers}
    /\ cpu2xla = EmptyMap
    /\ optimizer = NoOptimizer
    /\ handed = NoOptimizer
    /\ wrapArg = NoWrap
    /\ ncalls = 0
    /\ InitSaveVars
    /\ ctor \in CtorArgs
    /\ gas = Construct(ctor)
    /\ step = 0
    /\ sync = FALSE
    /\ phase = "idle"
    /\ params = Zeros
    /\ grads = Zeros
    /\ orig = Zeros
    /\ backwardArg = NoBackward
    /\ clipCall = NoClipCall
    /\ applied = NothingApplied

\* with accelerator.accumulate(model): the next training step begins.
Accumulate_Enter ==
    /\ phase = "idle"
    /\ step < MaxSteps
    /\ step' = step + 1
    /\ sync' = IsOptimizerUpdateStep(step, gas)
    /\ orig' = params
    /\ backwardArg' = NoBackward
    /\ clipCall' = NoClipCall
    /\ applied' = NothingApplied
    /\ phase' = "forward"
    /\ UNCHANGED <<ctor, gas, params, grads, prepVars>>

\* backward(loss), for a loss the accumulation step count divides.
Backward(k) ==
    LET loss == k * gas
        scaled == ScaledLoss(loss, acc, gas)
    IN
    /\ phase = "forward"
    /\ backwardArg' = [loss |-> loss, scaled |-> scaled]
    /\ grads' = [i \in ParamIds |-> grads[i] + GradOf(scaled)[i]]
    /\ phase' = "backward"
    /\ UNCHANGED <<ctor, gas, step, sync, params, orig, clipCall, applied, prepVars>>

\* clip_grad_norm_(model.parameters(), max_norm, norm_type, postpone)
ClipGradNormCall(max_norm, norm_type, postpone) ==
    LET ps == ParamIds
        given == [set |-> TRUE, parameters |-> ps, max_norm |-> max_norm,
                  norm_type |-> norm_type]
        call0 == [called |-> TRUE, postponed |-> postpone, given |-> given,
                  before |-> grads, err |-> "none"]
    IN
    /\ phase = "backward"
    /\ IF postpone
       THEN /\ IF TooManyOptimizers(optimizers)
               THEN /\ clipCall' = [call0 EXCEPT !.err = "RuntimeError"]
                    /\ UNCHANGED optimizers
               ELSE IF optimizers = <<>>
               THEN /\ clipCall' = [call0 EXCEPT !.err = "IndexError"]
                    /\ UNCHANGED optimizers
               ELSE /\ clipCall' = call0
                    /\ optimizers' = [optimizers EXCEPT
                          ![1] = PrepareClipGradNorm(@, ps, max_norm, norm_type)]
            /\ UNCHANGED grads
       ELSE /\ clipCall' = call0
            /\ grads' = ClipGradNorm(grads, ps, max_norm, norm_type)
            /\ UNCHANGED optimizers
    /\ phase' = "clipped"
    /\ UNCHANGED <<ctor, gas, step, sync, params, orig, backwardArg, applied>>
    /\ UNCHANGED <<acc, model, pc, call, cpu_ids, tied, trace, err, models, cpu2xla,
                   optimizer, handed, wrapArg, ncalls>>

\* optimizer.step() of the first prepared optimizer: skipped unless the
\* gradients are synced, and then the registered clipping comes first.
OptimizerStep ==
    /\ phase \in {"backward", "clipped"}
    /\ optimizers # <<>>
    /\ LET opt == optimizers[1] IN
       IF sync
       THEN \E g \in StepGradients(acc, grads, opt.clip) :
               /\ applied' = [done |-> opt.clip.set, clip |-> opt.clip, before |-> grads]
               /\ grads' = g
               /\ params' = [i \in ParamIds |-> params[i] - g[i]]
               /\ optimizers' = [optimizers EXCEPT ![1].clip = NoClip]
       ELSE UNCHANGED <<applied, grads, params, optimizers>>
    /\ phase' = "stepped"
    /\ UNCHANGED <<ctor, gas, step, sync, orig, backwardArg, clipCall>>
    /\ UNCHANGED <<acc, model, pc, call, cpu_ids, tied, trace, err, models, cpu2xla,
                   optimizer, handed, wrapArg, ncalls>>

\* optimizer.zero_grad(): skipped unless the gradients are synced.
ZeroGrad ==
    /\ phase = "stepped"
    /\ grads' = IF sync THEN Zeros ELSE grads
    /\ phase' = "zeroed"
    /\ UNCHANGED <<ctor, gas, step, sync, params, orig, backwardArg, clipCall, applied,
                   prepVars>>

\* The end of the with block; a loop without an optimizer has no step.
Accumulate_Exit ==
    /\ \/ phase = "zeroed"
       \/ phase \in {"backward", "clipped"} /\ optimizers = <<>>
    /\ phase' = "idle"
    /\ UNCHANGED <<ctor, gas, step, sync, params, grads, orig, backwardArg, clipCall,
                   applied, prepVars>>

NextTrain ==
    \/ Accumulate_Enter
    \/ \E k \in Losses : Backward(k)
    \/ \E max_norm \in MaxNorms, norm_type \in NormTypes, postpone \in BOOLEAN :
          ClipGradNormCall(max_norm, norm_type, postpone)
    \/ OptimizerStep
    \/ ZeroGrad
    \/ Accumulate_Exit

\* ------------------------------------------- parallel layer transform rules
\* (src/optimum/neuron/distributed/parallel_layers.py)
MaxTp == 3
MaxHeads == 4
MaxEmbeddings == 4

HeadDims == {1, 2}

\* kv_size_multiplier=None
NoMultiplier == 0

VARIABLES
    ruleIn,   \* the rule class, the model, the layer and the options of a transform call
    ruleOut   \* what the call did: the layer afterwards, the effects in order, the outcome

ruleVars == <<ruleIn, ruleOut>>

\* A submodule of a layer. kind is "linear", "column", "row", "gqa" (the
\* fused projection), "proxy" (FakeProj), "embedding", "parallel_embedding"
\* or "absent".
Module(kind, features) ==
    [kind |-> kind, features |-> features, gather_output |-> TRUE,
     input_is_parallel |-> FALSE, sequence_parallel |-> FALSE, weight |-> "dense",
     index |-> 0, owner |-> 0, fused |-> "none"]

Absent == Module("absent", 0)

\* One effect of a transform, in the order the code produces them.
Event(op, attr, what) == [op |-> op, attr |-> attr, what |-> what]

\* The progress of a _transform: the layer so far, the effects so far, and
\* the exception that ended it, if any.
Run(layer) == [layer |-> layer, events |-> <<>>, err |-> "none", loss_patched |-> FALSE]

Raise(r, e) == [r EXCEPT !.err = e, !.events = Append(@, Event("raise", e, "none"))]

\* setattr(layer, attr, value)
SetAttr(r, attr, value, what) ==
    [r EXCEPT !.layer = [@ EXCEPT ![attr] = value],
              !.events = Append(@, Event("setattr", attr, what))]

Note(r, op, attr, what) == [r EXCEPT !.events = Append(@, Event(op, attr, what))]

\* get_linear_weight_info(weight_map, name, fail_if_not_found=False): the
\* checkpoint location of a weight, when the model was lazily loaded.
HasWeightInfo(m) == m.weight_map

\* The sharding primitive refuses a dimension the shard count does not
\* divide.
CanShard(lin, tp) == lin.features % tp = 0

\* linear_to_parallel_linear(linear, axis, ...): the weight comes from the
\* checkpoint when its location is known, from the dense layer otherwise, and
\* is left unloaded when skip_weight_load is set.
LinearToParallelLinear(lin, axis, tp, gather_output, input_is_parallel, seq_par, info, skip) ==
    [lin EXCEPT !.kind = axis,
                !.features = lin.features \div tp,
                !.gather_output = gather_output,
                !.input_is_parallel = input_is_parallel,
                !.sequence_parallel = seq_par,
                !.weight = IF skip THEN "unloaded"
                           ELSE IF info THEN "slice_of_checkpoint"
                           ELSE "slice_of_original"]

\* The options a rule class declares, with their defaults
\* (PARALLEL_LAYER_SPECIFIC_KWARGS).
DeclaredKwargs(kind) ==
    CASE kind = "attention" -> [skip_linear_weight_load |-> FALSE,
                                kv_size_multiplier |-> NoMultiplier]
      [] kind = "embedding" -> [x \in {} |-> FALSE]
      [] OTHER -> [skip_linear_weight_load |-> FALSE]

OptionNames == {"skip_linear_weight_load", "kv_size_multiplier", "gather_output"}

\* prepare_parallel_layer_specific_kwargs: the dictionary handed to _transform
PrepareKwargs(declared, given) ==
    [k \in DOMAIN declared |-> IF k \in DOMAIN given THEN given[k] ELSE declared[k]]

\* The log records prepare_parallel_layer_specific_kwargs emits.
KwargsLog(declared, given) ==
    IF ~(DOMAIN given \subseteq DOMAIN declared)
    THEN <<[level |-> "debug", names |-> DOMAIN given \ DOMAIN declared]>>
    ELSE <<>>

\* ---- ParallelSelfAttention
\* c is the call: the rule class (cls), the model (m), the layer as it was
\* given (orig), the shard count (tp), sequence_parallel_enabled (seq_par) and
\* the prepared options (kwargs). r is the run so far.

NeedsGqa_Never(c) == FALSE

\* needs_gqa_qkv_column_parallel_linear
NeedsGqa(c) == c.cls.kvName /\ c.orig.num_key_value_heads < c.tp

\* Both NUM_KEY_VALUE_HEADS_NAME and NUM_KEY_VALUE_GROUPS_NAME, or neither.
DeclaredTogether(cls) == cls.kvName = cls.groupsName

CheckDeclaredTogether_Late(c, r) ==
    IF r.err # "none" THEN r
    ELSE IF ~DeclaredTogether(c.cls) /\ c.cls.outName
    THEN Raise(SetAttr(r, "output_projection", Absent, "absent"), "AttributeError")
    ELSE IF ~DeclaredTogether(c.cls) THEN Raise(r, "AttributeError")
    ELSE r

CheckDeclaredTogether(c, r) ==
    IF r.err # "none" THEN r
    ELSE IF ~DeclaredTogether(c.cls) THEN Raise(r, "AttributeError")
    ELSE r

\* hasattr(layer, num_attention_heads_name), hasattr(layer, all_head_size_name)
CheckAttributes(c, r) ==
    IF r.err # "none" THEN r
    ELSE IF ~r.layer.has_num_attention_heads THEN Raise(r, "AttributeError")
    ELSE IF ~r.layer.has_all_head_size THEN Raise(r, "AttributeError")
    ELSE r

\* The key/value head count and the shard count: one must divide the other.
KvCompatible(kv, tp) == ~(kv % tp # 0 /\ tp % kv # 0)

CheckKvHeads(c, r) ==
    IF r.err # "none" THEN r
    ELSE IF c.cls.kvName /\ ~KvCompatible(r.layer.num_key_value_heads, c.tp)
    THEN Raise(r, "ValueError")
    ELSE r

\* kv_size_multiplier, derived from the shard count when it is not given
KvSizeMultiplier(c) ==
    IF c.kwargs.kv_size_multiplier = NoMultiplier
    THEN c.tp \div c.orig.num_key_value_heads
    ELSE c.kwargs.kv_size_multiplier

\* The fused projection gives every rank whole heads only when the shard
\* count divides the attention heads and the replicated key/value heads.
GqaCompatible(heads, kv, mult, tp) == heads % tp = 0 /\ (kv * mult) % tp = 0

\* maybe_load_weights_to_gqa_qkv_column_parallel_linear: from the checkpoint
\* when the model has a weight map, else from the query, key and value layers
\* that are attached to the attention layer at that moment.
LoadGqaWeights(c, r) ==
    LET skip == c.kwargs.skip_linear_weight_load
        w == IF skip THEN "unloaded"
             ELSE IF HasWeightInfo(c.m) THEN "fused_from_checkpoint"
             ELSE IF /\ r.layer.query.kind = "linear"
                     /\ r.layer.key.kind = "linear"
                     /\ r.layer.value.kind = "linear"
             THEN "fused_from_original"
             ELSE "unloaded"
    IN Note([r EXCEPT !.layer.qkv_proj.weight = w], "load_gqa", "qkv_proj", w)

\* FakeProj(..., output_index, lambda: attention_layer, ..., GQA_QKV_PROJ_NAME)
FakeProj(c, index) ==
    [Module("proxy", 0) EXCEPT !.index = index, !.owner = c.orig.id, !.fused = "qkv_proj"]

InstallProxies(c, r) ==
    SetAttr(SetAttr(SetAttr(r, "query", FakeProj(c, 0), "proxy"),
                    "key", FakeProj(c, 1), "proxy"),
            "value", FakeProj(c, 2), "proxy")

\* The fused projection, before its weights are loaded.
GqaQkvColumnParallelLinear(c, r) ==
    [Module("gqa", (r.layer.query.features + 2 * r.layer.key.features * KvSizeMultiplier(c))
                       \div c.tp)
        EXCEPT !.gather_output = FALSE, !.sequence_parallel = c.seq_par,
               !.weight = "unloaded", !.owner = c.orig.id]

ReplaceQkvByGqa_ProxiesFirst(c, r) ==
    IF r.err # "none" THEN r
    ELSE IF ~c.cls.kvName THEN Raise(r, "ValueError")
    ELSE IF c.tp < r.layer.num_key_value_heads THEN Raise(r, "ValueError")
    ELSE IF ~c.cls.headsName THEN Raise(r, "TypeError")
    ELSE IF ~GqaCompatible(r.layer.num_attention_heads, r.layer.num_key_value_heads,
                           KvSizeMultiplier(c), c.tp)
    THEN Raise(r, "ValueError")
    ELSE LoadGqaWeights(c, InstallProxies(c,
            SetAttr(r, "qkv_proj", GqaQkvColumnParallelLinear(c, r), "gqa")))

\* replace_qkv_by_gqa_qkv_column_parallel_linear. It reads the head count
\* with getattr(attention_layer, cls.NUM_ATTENTION_HEADS_NAME), the declared
\* name and not the one _transform resolved: with the name left undeclared
\* that is getattr(layer, None), a TypeError.
ReplaceQkvByGqa(c, r) ==
    IF r.err # "none" THEN r
    ELSE IF ~c.cls.kvName THEN Raise(r, "ValueError")
    ELSE IF c.tp < r.layer.num_key_value_heads THEN Raise(r, "ValueError")
    ELSE IF ~c.cls.headsName THEN Raise(r, "TypeError")
    ELSE IF ~GqaCompatible(r.layer.num_attention_heads, r.layer.num_key_value_heads,
                           KvSizeMultiplier(c), c.tp)
    THEN Raise(r, "ValueError")
    ELSE InstallProxies(c, LoadGqaWeights(c,
            SetAttr(r, "qkv_proj", GqaQkvColumnParallelLinear(c, r), "gqa")))

\* One turn of the loop over the query, key and value names.
ShardProjection(c, r, name) ==
    IF r.err # "none" THEN r
    ELSE IF ~CanShard(r.layer[name], c.tp) THEN Raise(r, "ValueError")
    ELSE SetAttr(r, name,
                 LinearToParallelLinear(r.layer[name], "column", c.tp, FALSE, FALSE,
                                        c.seq_par, HasWeightInfo(c.m),
                                        c.kwargs.skip_linear_weight_load),
                 "column")

ShardQkv(c, r) ==
    ShardProjection(c, ShardProjection(c, ShardProjection(c, r, "query"), "key"), "value")

\* The fused path or the three column-sharded projections.
TransformQkv(c, r) ==
    IF r.err # "none" THEN r
    ELSE IF NeedsGqa(c) THEN ReplaceQkvByGqa(c, r)
    ELSE ShardQkv(c, r)

\* maybe_load_weights_to_output_projection_when_using_gqa_qkv_column_parallel_linear:
\* from the checkpoint when the model has a weight map, else from the original
\* output projection it is handed, which must still be the dense layer.
ReloadOutputProjection(c, original, w) ==
    IF c.kwargs.skip_linear_weight_load THEN w
    ELSE IF HasWeightInfo(c.m) THEN "reordered_from_checkpoint"
    ELSE IF original.kind = "linear" THEN "reordered_from_original"
    ELSE w

OutputProjection_NoReload(c, r) ==
    IF r.err # "none" \/ ~c.cls.outName THEN r
    ELSE IF ~CanShard(r.layer.output_projection, c.tp) THEN Raise(r, "ValueError")
    ELSE SetAttr(r, "output_projection",
                 LinearToParallelLinear(r.layer.output_projection, "row", c.tp, TRUE, TRUE,
                                        c.seq_par, HasWeightInfo(c.m),
                                        c.kwargs.skip_linear_weight_load),
                 "row")

\* The output projection: row-sharded, and on the fused path re-initialised
\* because the query heads were reordered.
OutputProjection(c, r) ==
    IF r.err # "none" \/ ~c.cls.outName THEN r
    ELSE IF ~CanShard(r.layer.output_projection, c.tp) THEN Raise(r, "ValueError")
    ELSE LET parallel_output_proj ==
                 LinearToParallelLinear(r.layer.output_projection, "row", c.tp, TRUE, TRUE,
                                        c.seq_par, HasWeightInfo(c.m),
                                        c.kwargs.skip_linear_weight_load)
             original == r.layer.output_projection
             reloaded == ReloadOutputProjection(c, original, "uninitialized")
         IN IF NeedsGqa(c)
            THEN SetAttr(Note(Note(r, "mark_uninitialized", "output_projection", "uninitialized"),
                              "load_output", "output_projection", reloaded),
                         "output_projection",
                         [parallel_output_proj EXCEPT !.weight = reloaded], "row")
            ELSE SetAttr(r, "output_projection", parallel_output_proj, "row")

\* (num_key_value_heads * kv_size_multiplier) // tp_size
NewNumKeyValueHeads(c) == (c.orig.num_key_value_heads * KvSizeMultiplier(c)) \div c.tp

\* The head counts and the head size the layer is left with.
UpdateHeadCounts(c, r) ==
    IF r.err # "none" THEN r
    ELSE LET heads == SetAttr(r, "num_attention_heads",
                              c.orig.num_attention_heads \div c.tp, "int")
             kvs == IF ~c.cls.kvName THEN heads
                    ELSE IF ~NeedsGqa(c)
                    THEN SetAttr(heads, "num_key_value_heads",
                                 c.orig.num_key_value_heads \div c.tp, "int")
                    ELSE SetAttr(SetAttr(heads, "num_key_value_heads",
                                         NewNumKeyValueHeads(c), "int"),
                                 "num_key_value_groups",
                                 (c.orig.num_attention_heads \div c.tp)
                                     \div NewNumKeyValueHeads(c), "int")
         IN SetAttr(kvs, "all_head_size", c.orig.all_head_size \div c.tp, "int")

\* ParallelSelfAttention._transform
SelfAttentionTransform(c) ==
    UpdateHeadCounts(c,
        OutputProjection(c,
            TransformQkv(c,
                CheckKvHeads(c,
                    CheckAttributes(c,
                        CheckDeclaredTogether(c, Run(c.orig)))))))

\* ---- ParallelEmbedding
\* A name a rule class declares: one string, or a dictionary keyed by the
\* model class ("dict_class" has the model's class, "dict_default" only a
\* default entry, "dict_other" neither); "none" is None.
NameKinds == {"none", "str", "dict_class", "dict_default", "dict_other"}

\* LM_HEAD_NAME.get(model.__class__.__name__, None), or the string itself
LmHeadName(cls) == cls.lmHeadName \in {"str", "dict_class"}

\* model_has_lm_head
ModelHasLmHead(c) == LmHeadName(c.cls) /\ c.orig.lm_head.kind # "absent"

\* The embedding name can be inferred from EMBEDDING_NAME.
EmbeddingNameKnown(cls) == cls.embeddingName \in {"str", "dict_class", "dict_default"}

\* The embedding's module name below the layer, and the fully-qualified
\* name of its weight; the keys of a weight map are weight names.
EmbeddingName == "embedding"
EmbeddingWeightName == "embedding.weight"
WeightMapKeys == SUBSET {EmbeddingWeightName, "lm_head.weight"}

\* The weight map of a model: None, or a dictionary with the given keys.
WeightMaps ==
    {[weight_map |-> FALSE, keys |-> {}, problem_type |-> ""]}
        \cup {[weight_map |-> TRUE, keys |-> ks, problem_type |-> ""] : ks \in WeightMapKeys}

\* embedding_weight_info: the map is tested for the embedding's module name
\* and then indexed with its weight name.
EmbeddingWeightInfo(c) ==
    IF ~c.m.weight_map THEN "none"
    ELSE IF EmbeddingName \notin c.m.keys THEN "none"
    ELSE IF EmbeddingWeightName \in c.m.keys THEN "info"
    ELSE "KeyError"

\* embedding_to_parallel_embedding: the embedding sharded over its rows,
\* loaded from the checkpoint when its weight information is passed, and the
\* tied head, when there is one, sharing the sharded weight.
EmbeddingToParallelEmbedding(c, r) ==
    LET emb == SetAttr(r, "embedding",
                       [r.layer.embedding EXCEPT !.kind = "parallel_embedding",
                                                 !.features = @ \div c.tp,
                                                 !.weight =
                                                     IF EmbeddingWeightInfo(c) = "info"
                                                     THEN "rows_of_checkpoint"
                                                     ELSE "rows_of_original"],
                       "parallel_embedding")
    IN IF ModelHasLmHead(c)
       THEN SetAttr(emb, "lm_head",
                    [r.layer.lm_head EXCEPT !.kind = "column", !.features = @ \div c.tp,
                                            !.weight = "tied_to_embedding"],
                    "column")
       ELSE emb

EmbeddingTransform_NoDivisibilityTest(c) ==
    IF ~EmbeddingNameKnown(c.cls) THEN Raise(Run(c.orig), "ValueError")
    ELSE IF EmbeddingWeightInfo(c) = "KeyError" THEN Raise(Run(c.orig), "KeyError")
    ELSE EmbeddingToParallelEmbedding(c, Run(c.orig))

\* ParallelEmbedding._transform
EmbeddingTransform(c) ==
    IF ~EmbeddingNameKnown(c.cls) THEN Raise(Run(c.orig), "ValueError")
    ELSE IF EmbeddingWeightInfo(c) = "KeyError" THEN Raise(Run(c.orig), "KeyError")
    ELSE IF c.orig.embedding.features % c.tp # 0
    THEN IF c.main_worker THEN Note(Run(c.orig), "log", "warning", "skipped")
         ELSE Run(c.orig)
    ELSE EmbeddingToParallelEmbedding(c, Run(c.orig))

\* ---- ParallelCrossEntropy
\* is_eligible_for_cross_entropy_parallelization
ProblemTypes == {"", "single_label_classification", "regression", "multi_label_classification"}
Eligible(m) == m.problem_type \notin {"regression", "multi_label_classification"}

\* linear_projection_name is not None
ProjectionName(cls) == cls.projectionName \in {"str", "dict_class"}

\* patch_cross_entropy
PatchCrossEntropy(r) ==
    Note([r EXCEPT !.loss_patched = TRUE], "patch", "cross_entropy", "parallel_cross_entropy")

CrossEntropyTransform_PatchFirst(c) ==
    IF ~ProjectionName(c.cls) \/ ~Eligible(c.m) THEN Run(c.orig)
    ELSE IF c.orig.projection.kind = "row"
    THEN Raise(PatchCrossEntropy(Run(c.orig)), "ValueError")
    ELSE IF c.orig.projection.kind = "column" THEN PatchCrossEntropy(Run(c.orig))
    ELSE IF ~CanShard(c.orig.projection, c.tp)
    THEN Raise(PatchCrossEntropy(Run(c.orig)), "ValueError")
    ELSE SetAttr(PatchCrossEntropy(Run(c.orig)), "projection",
                 LinearToParallelLinear(c.orig.projection, "column", c.tp, FALSE, FALSE,
                                        c.seq_par, HasWeightInfo(c.m),
                                        c.kwargs.skip_linear_weight_load),
                 "column")

\* ParallelCrossEntropy._transform
CrossEntropyTransform(c) ==
    IF ~ProjectionName(c.cls) \/ ~Eligible(c.m) THEN Run(c.orig)
    ELSE IF c.orig.projection.kind = "column" THEN PatchCrossEntropy(Run(c.orig))
    ELSE IF c.orig.projection.kind = "row" THEN Raise(Run(c.orig), "ValueError")
    ELSE IF ~CanShard(c.orig.projection, c.tp) THEN Raise(Run(c.orig), "ValueError")
    ELSE PatchCrossEntropy(
             SetAttr(Run(c.orig), "projection",
                     LinearToParallelLinear(c.orig.projection, "column", c.tp, FALSE, FALSE,
                                            FALSE, HasWeightInfo(c.m),
                                            c.kwargs.skip_linear_weight_load),
                     "column"))

\* ---- ParallelLayer.transform
\* The keyword options a caller gives: any of the option names, each with one
\* of its values.
Multipliers == {1, 2}
GivenKwargs(names, skip, mult) ==
    [k \in names |-> CASE k = "skip_linear_weight_load" -> skip
                       [] k = "kv_size_multiplier" -> mult
                       [] OTHER -> TRUE]

\* should_parallelize_layer_predicate_func: None, or what it answers for the layer
Predicates == {"none", "accept", "reject"}

\* An attention layer of a model: `heads` query heads, `kv` key/value heads
\* (the query heads when the architecture has no grouped attention).
AttentionLayer(heads, kv, head_dim, missing) ==
    [id |-> 1,
     has_num_attention_heads |-> missing # "num_attention_heads",
     has_all_head_size |-> missing # "all_head_size",
     num_attention_heads |-> heads,
     num_key_value_heads |-> kv,
     num_key_value_groups |-> heads \div kv,
     all_head_size |-> heads * head_dim,
     query |-> Module("linear", heads * head_dim),
     key |-> Module("linear", kv * head_dim),
     value |-> Module("linear", kv * head_dim),
     output_projection |-> Module("linear", heads * head_dim),
     qkv_proj |-> Absent]

AttentionLayers(cls) ==
    {AttentionLayer(hk[1], hk[2], d, x) :
        hk \in {p \in (1..MaxHeads) \X (1..MaxHeads) :
                   p[1] % p[2] = 0 /\ (~cls.kvName => p[2] = p[1])},
        d \in HeadDims, x \in {"none", "num_attention_heads", "all_head_size"}}

\* headsName: NUM_ATTENTION_HEADS_NAME is declared (when it is not, _transform
\* takes the name from the normalized config).
AttentionRules == [kind : {"attention"}, headsName : BOOLEAN, kvName : BOOLEAN,
                   groupsName : BOOLEAN, outName : BOOLEAN]

EmbeddingLayers ==
    {[id |-> 1, embedding |-> Module("embedding", n),
      lm_head |-> IF head THEN Module("linear", n) ELSE Absent] :
        n \in 1..MaxEmbeddings, head \in BOOLEAN}

EmbeddingRules == [kind : {"embedding"}, embeddingName : NameKinds \ {"none"},
                   lmHeadName : NameKinds \ {"dict_default"}]

CrossEntropyLayers ==
    {[id |-> 1, projection |-> Module(k, n)] :
        k \in {"linear", "column", "row"}, n \in 1..MaxEmbeddings}

CrossEntropyRules == [kind : {"cross_entropy"},
                      projectionName : NameKinds \ {"dict_default"}]

\* The model: its _weight_map and its config.problem_type
RuleModels == [weight_map : BOOLEAN, problem_type : ProblemTypes]

NoCall == [kind |-> "idle"]
NoOutcome == [applied |-> FALSE, kwargs |-> <<>>, log |-> <<>>, run |-> Run(Absent)]

\* cls._transform of the rule class
RuleTransform(c) ==
    CASE c.cls.kind = "attention" -> SelfAttentionTransform(c)
      [] c.cls.kind = "embedding" -> EmbeddingTransform(c)
      [] c.cls.kind = "cross_entropy" -> CrossEntropyTransform(c)

\* ParallelLayer.transform(model, layer, sequence_parallel_enabled, device,
\* should_parallelize_layer_predicate_func, **parallel_layer_specific_kwargs)
Transform(cls, m, layer, tp, seq_par, main_worker, predicate, given) ==
    LET kwargs == PrepareKwargs(DeclaredKwargs(cls.kind), given)
        c == [cls |-> cls, m |-> m, orig |-> layer, tp |-> tp, seq_par |-> seq_par,
              main_worker |-> main_worker, kwargs |-> kwargs]
    IN /\ ruleIn' = [kind |-> cls.kind, cls |-> cls, m |-> m, layer |-> layer, tp |-> tp,
                     seq_par |-> seq_par, main_worker |-> main_worker,
                     predicate |-> predicate, given |-> given]
       /\ ruleOut' = IF predicate = "reject"
                     THEN [applied |-> FALSE, kwargs |-> kwargs,
                           log |-> KwargsLog(DeclaredKwargs(cls.kind), given),
                           run |-> Run(layer)]
                     ELSE [applied |-> TRUE, kwargs |-> kwargs,
                           log |-> KwargsLog(DeclaredKwargs(cls.kind), given),
                           run |-> RuleTransform(c)]

TransformSelfAttention ==
    /\ ruleIn.kind = "idle"
    /\ \E cls \in AttentionRules, m \in [weight_map : BOOLEAN, problem_type : {""}],
          tp \in 1..MaxTp, seq_par \in BOOLEAN,
       predicate \in Predicates, names \in SUBSET OptionNames, skip \in BOOLEAN,
       mult \in Multipliers :
        \E layer \in AttentionLayers(cls) :
            Transform(cls, m, layer, tp, seq_par, TRUE, predicate,
                      GivenKwargs(names, skip, mult))

TransformEmbedding ==
    /\ ruleIn.kind = "idle"
    /\ \E cls \in EmbeddingRules, m \in WeightMaps,
          layer \in EmbeddingLayers, tp \in 1..MaxTp,
       main_worker \in BOOLEAN, predicate \in Predicates, names \in SUBSET OptionNames,
       skip \in BOOLEAN, mult \in Multipliers :
        Transform(cls, m, layer, tp, FALSE, main_worker, predicate,
                  GivenKwargs(names, skip, mult))

TransformCrossEntropy ==
    /\ ruleIn.kind = "idle"
    /\ \E cls \in CrossEntropyRules, m \in RuleModels, layer \in CrossEntropyLayers,
       tp \in 1..MaxTp, seq_par \in BOOLEAN, predicate \in Predicates,
       names \in SUBSET OptionNames, skip \in BOOLEAN, mult \in Multipliers :
        Transform(cls, m, layer, tp, seq_par, TRUE, predicate,
                  GivenKwargs(names, skip, mult))

InitRuleVars ==
    /\ ruleIn = NoCall
    /\ ruleOut = NoOutcome

NextRules ==
    \/ TransformSelfAttention
    \/ TransformEmbedding
    \/ TransformCrossEntropy

\* ------------------------------------------ sequence-parallel boundary collectives
\* (IOSequenceParallelizer._sequence_parallelize)
MaxExtraArgs == 2
MaxOutputs == 3
VARIABLES
    fwdIn,    \* the declaration and the arguments of a call of the wrapped forward
    fwdOut    \* what the original forward received and what the wrapped one returned
fwdVars == <<fwdIn, fwdOut>>

\* An activation: the order of its first two axes, whether it holds the full
\* sequence or this rank's slice, and the operations it went through.
Tensors == [layout : {"batch_first", "sequence_first"}, seq : {"full", "slice"},
            history : {<<>>}]

\* tensor.transpose(0, 1).contiguous()
Transpose(t) ==
    [t EXCEPT !.layout = IF @ = "batch_first" THEN "sequence_first" ELSE "batch_first",
              !.history = Append(@, "transpose")]

\* scatter_to_sequence_parallel_region
Scatter(t) == [t EXCEPT !.seq = "slice", !.history = Append(@, "scatter")]

\* gather_from_sequence_parallel_region(t, to_model_parallel=False)
Gather(t) == [t EXCEPT !.seq = "full", !.history = Append(@, "gather")]

\* transpose then scatter, or gather then transpose
Collective(op, t) == IF op = "scatter" THEN Scatter(Transpose(t)) ELSE Transpose(Gather(t))

\* The layer's original forward: it computes on its first argument and
\* returns a tensor (outputs = 0) or a tuple of `outputs` elements.
OrigForward(args, kwargs, outputs) ==
    LET t == [args[1] EXCEPT !.history = Append(@, "forward")]
    IN [received |-> [args |-> args, kwargs |-> kwargs],
        output |-> IF outputs = 0 THEN [tuple |-> FALSE, elems |-> <<t>>]
                   ELSE [tuple |-> TRUE,
                         elems |-> <<t>> \o [i \in 1..(outputs - 1) |-> i]]]

Tail2(args) == SubSeq(args, 2, Len(args))

SequenceParallelForward_AlwaysAfter(decl, args, kwargs, outputs) ==
    LET o == OrigForward(args, kwargs, outputs)
    IN [o EXCEPT !.output.elems = <<Collective(decl.collective_op, o.output.elems[1])>>
                                      \o Tail2(o.output.elems)]

SequenceParallelForward_FirstOnly(decl, args, kwargs, outputs) ==
    IF decl.io = "input"
    THEN OrigForward(<<Collective(decl.collective_op, args[1])>> \o Tail2(args),
                     kwargs, outputs)
    ELSE LET o == OrigForward(args, kwargs, outputs)
         IN [o EXCEPT !.output.elems = <<Collective(decl.collective_op, o.output.elems[1])>>]

\* sequence_parallel_forward(*args, **kwargs); args here are the arguments
\* after the bound layer, the activation first.
SequenceParallelForward(decl, args, kwargs, outputs) ==
    IF decl.io = "input"
    THEN OrigForward(<<Collective(decl.collective_op, args[1])>> \o Tail2(args),
                     kwargs, outputs)
    ELSE LET o == OrigForward(args, kwargs, outputs)
         IN [o EXCEPT !.output.elems = <<Collective(decl.collective_op, o.output.elems[1])>>
                                           \o Tail2(o.output.elems)]

\* SequenceCollectiveOpInfo
Declarations == [collective_op : {"scatter", "gather"}, io : {"input", "output"},
                 first_or_last : {"first", "last"}]

ExtraArgs == UNION {[1..n -> {"attention_mask", "position_ids"}] : n \in 0..MaxExtraArgs}
KeywordArgs == SUBSET {"use_cache", "output_attentions"}

NoForward == [called |-> FALSE]

InitFwdVars ==
    /\ fwdIn = NoForward
    /\ fwdOut = NoForward

\* One call of a layer's forward after _sequence_parallelize wrapped it.
WrappedForward ==
    /\ ~fwdIn.called
    /\ \E decl \in Declarations, t \in Tensors, extra \in ExtraArgs, kwargs \in KeywordArgs,
       outputs \in 0..MaxOutputs :
        /\ fwdIn' = [called |-> TRUE, decl |-> decl, args |-> <<t>> \o extra,
                     kwargs |-> kwargs, outputs |-> outputs]
        /\ fwdOut' = [called |-> TRUE]
                       @@ SequenceParallelForward(decl, <<t>> \o extra, kwargs, outputs)

\* ------------------------------------------ sequence-parallel normalization layers
\* LayerNormSequenceParallelizer. A model is the sequence of its named
\* modules, in the order of named_modules(); a pattern is the set of the
\* modules whose qualified name it matches.
MaxModules == 2
MaxPatterns == 2

VARIABLES
    norm,     \* a call of sequence_parallelize: its arguments, the modules before and after
    loader,   \* a call of prepare_data_loader: its arguments and the dataloader returned
    ranks     \* where each rank stands in a save_state all ranks entered together
extVars == <<norm, loader, ranks>>

NoNormCall == [called |-> FALSE]

\* The value _set_sequence_parallel_enabled leaves on a parameter.
Tag(flag) == IF flag THEN "on" ELSE "off"

\* A module as the parallelizer sees it: its class, whether it has learnable
\* parameters (elementwise_affine of a LayerNorm; an RMS norm and a linear
\* layer have a weight), its sequence_parallel_enabled attribute and the tags
\* of its weight and bias.
NormModule(class, affine) ==
    [class |-> class, affine |-> affine, sp |-> "unset",
     weight_tag |-> "unset", bias_tag |-> "unset"]

NormModules ==
    {NormModule("LayerNorm", a) : a \in BOOLEAN}
        \cup {NormModule(c, TRUE) : c \in {"RMSNorm", "Linear"}}

\* isinstance(module, torch.nn.LayerNorm): the sequence-parallel LayerNorm
\* derives from torch.nn.LayerNorm.
IsLayerNorm(mod) == mod.class \in {"LayerNorm", "SequenceParallelLayerNorm"}

ParallelizeLayernorm_NoTypeTest(flag, mod) ==
    [err |-> "none",
     mod |-> [mod EXCEPT !.class = "SequenceParallelLayerNorm",
                         !.sp = Tag(flag),
                         !.weight_tag = IF mod.affine THEN Tag(flag) ELSE @,
                         !.bias_tag = IF mod.affine THEN Tag(flag) ELSE @]]

\* parallelize_layernorm
ParallelizeLayernorm(flag, mod) ==
    IF ~IsLayerNorm(mod) THEN [err |-> "TypeError", mod |-> mod]
    ELSE [err |-> "none",
          mod |-> [mod EXCEPT !.class = "SequenceParallelLayerNorm",
                              !.sp = Tag(flag),
                              !.weight_tag = IF mod.affine THEN Tag(flag) ELSE @,
                              !.bias_tag = IF mod.affine THEN Tag(flag) ELSE @]]

\* parallelize_rmsnorm: the weight is tagged, the class is kept. A module
\* without a weight (weight is None) has nothing the tag can be set on.
ParallelizeRmsnorm(flag, mod) ==
    IF ~mod.affine THEN [err |-> "AttributeError", mod |-> mod]
    ELSE [err |-> "none", mod |-> [mod EXCEPT !.weight_tag = Tag(flag)]]

\* layernorm_type_to_parallelize_method[layernorm_type]
ParallelizeMethod(flavour, flag, mod) ==
    IF flavour = "regular" THEN ParallelizeLayernorm(flag, mod)
    ELSE ParallelizeRmsnorm(flag, mod)

\* The two loops of sequence_parallelize, from module i and pattern p on: the
\* method is applied once for every pattern that matches, and the first
\* exception ends the call with the modules as they are by then.
RECURSIVE NormLoop(_, _, _, _, _, _)
NormLoop(flavour, flag, patterns, mods, i, p) ==
    IF i > Len(mods) THEN [err |-> "none", mods |-> mods]
    ELSE IF p > Len(patterns) THEN NormLoop(flavour, flag, patterns, mods, i + 1, 1)
    ELSE IF i \notin patterns[p] THEN NormLoop(flavour, flag, patterns, mods, i, p + 1)
    ELSE LET r == ParallelizeMethod(flavour, flag, mods[i])
         IN IF r.err # "none" THEN [err |-> r.err, mods |-> mods]
            ELSE NormLoop(flavour, flag, patterns, [mods EXCEPT ![i] = r.mod], i, p + 1)

PatternLists ==
    UNION {[1..n -> SUBSET (1..MaxModules)] : n \in 0..MaxPatterns}

\* LayerNormSequenceParallelizer(sequence_parallel_enabled, patterns)
\*     .sequence_parallelize(model, layernorm_type)
SequenceParallelizeNorms ==
    /\ ~norm.called
    /\ \E flavour \in {"regular", "rms_norm"}, flag \in BOOLEAN,
          patterns \in PatternLists, mods \in [1..MaxModules -> NormModules] :
        LET r == NormLoop(flavour, flag, patterns, mods, 1, 1)
        IN norm' = [called |-> TRUE, flavour |-> flavour, flag |-> flag,
                    patterns |-> patterns, before |-> mods, after |-> r.mods,
                    err |-> r.err]
    /\ UNCHANGED <<loader, ranks>>

\* ---------------------------------------------------------- prepare_data_loader
MaxPpSize == 2
MaxProcesses == 2

NoLoaderCall == [called |-> FALSE]

\* The sampler of a dataloader: a DistributedSampler, a SequentialSampler, a
\* RandomSampler, a sampler with a shuffle attribute of its own, or any other.
Samplers ==
    {[kind |-> k, has_shuffle |-> FALSE, shuffle |-> FALSE] :
        k \in {"SequentialSampler", "RandomSampler", "OtherSampler"}}
      \cup {[kind |-> k, has_shuffle |-> TRUE, shuffle |-> sh] :
              k \in {"DistributedSampler", "ShufflingSampler"}, sh \in BOOLEAN}

DataLoaders ==
    {[sampler |-> sm, drop_last |-> d, accelerate_prepared |-> FALSE,
      mp_device_loader |-> FALSE, warned_shuffle |-> FALSE] :
        sm \in Samplers, d \in BOOLEAN}

\* _prepare_data_loader_for_distributed
PrepareDataLoaderForDistributed(data_loader, force_drop_last) ==
    IF data_loader.sampler.kind = "DistributedSampler" THEN data_loader
    ELSE LET orig_sampler == data_loader.sampler
             shuffle == IF orig_sampler.has_shuffle THEN orig_sampler.shuffle
                        ELSE IF orig_sampler.kind = "SequentialSampler" THEN FALSE
                        ELSE TRUE
         IN [sampler |-> [kind |-> "DistributedSampler", has_shuffle |-> TRUE,
                          shuffle |-> shuffle],
             drop_last |-> data_loader.drop_last \/ force_drop_last,
             accelerate_prepared |-> TRUE,
             mp_device_loader |-> FALSE,
             warned_shuffle |-> ~orig_sampler.has_shuffle
                                   /\ orig_sampler.kind \notin {"SequentialSampler", "RandomSampler"}]

\* prepare_data_loader(data_loader, use_mp_device_loader) on an accelerator
\* of the given topology: pp is the pipeline-parallel size, procs is
\* state.num_processes.
PrepareDataLoader ==
    /\ ~loader.called
    /\ \E dist \in {"MP", "DDP"}, pp \in 1..MaxPpSize, procs \in 1..MaxProcesses,
          main_worker \in BOOLEAN, use_mp_device_loader \in BOOLEAN,
          data_loader \in DataLoaders :
        /\ (dist # "MP") => pp = 1
        /\ LET force_drop_last == dist = "MP" /\ pp > 1
               distributed == PrepareDataLoaderForDistributed(data_loader, force_drop_last)
               out == IF procs > 1
                      THEN [distributed EXCEPT
                                !.mp_device_loader = use_mp_device_loader /\ pp = 1]
                      ELSE data_loader
           IN loader' = [called |-> TRUE, dist |-> dist, pp |-> pp, procs |-> procs,
                         main_worker |-> main_worker,
                         use_mp_device_loader |-> use_mp_device_loader,
                         given |-> data_loader, returned |-> out,
                         warned_drop_last |-> main_worker /\ force_drop_last]
    /\ UNCHANGED <<norm, ranks>>

\* ------------------------------------------------- save_state on several ranks
\* Every rank runs _custom_save_state in a process of its own over one
\* shared checkpoints directory; the file-system calls are the steps, and
\* nothing in the function makes a rank wait for another between them.
NumRanks == 2

NoRanks == <<>>

RankAtStart(existed) ==
    [pc |-> "start", listing |-> {}, err |-> "none", existedAtCall |-> existed,
     clobbered |-> FALSE]

\* The folder checkpoint_<n> some other rank has created and not finished
\* writing.
WrittenByOther(rk, r, n) ==
    \E o \in (DOMAIN rk) \ {r} : rk[o].pc = "writing" /\ n = iteration

\* os.makedirs(<project_dir>/checkpoints) and os.listdir of it
RankListdir(r) ==
    /\ ranks[r].pc = "start"
    /\ ranks' = [ranks EXCEPT ![r].pc = "listed", ![r].listing = fs]
    /\ UNCHANGED fs

\* The shutil.rmtree loop over the lowest-numbered folders of the listing; a
\* folder another rank removed in between makes rmtree raise.
RankPrune(r) ==
    /\ ranks[r].pc = "listed"
    /\ LET gone == Pruned(ranks[r].listing, config)
       IN IF gone \subseteq fs
          THEN /\ fs' = fs \ gone
               /\ ranks' = [ranks EXCEPT
                               ![r].pc = "pruned",
                               ![r].clobbered = \E n \in gone : WrittenByOther(ranks, r, n)]
          ELSE /\ fs' = fs \ gone
               /\ ranks' = [ranks EXCEPT
                               ![r].pc = "failed", ![r].err = "FileNotFoundError",
                               ![r].clobbered = \E n \in gone \cap fs :
                                                    WrittenByOther(ranks, r, n)]

\* os.path.exists(checkpoint_<save_iteration>) and the ValueError
RankCheckTarget(r) ==
    /\ ranks[r].pc = "pruned"
    /\ ranks' = IF TargetExists(fs, iteration)
                THEN [ranks EXCEPT ![r].pc = "failed", ![r].err = "ValueError"]
                ELSE [ranks EXCEPT ![r].pc = "checked"]
    /\ UNCHANGED fs

\* os.makedirs(output_dir, exist_ok=True)
RankMakedirs(r) ==
    /\ ranks[r].pc = "checked"
    /\ fs' = fs \cup {iteration}
    /\ ranks' = [ranks EXCEPT ![r].pc = "writing"]

\* The rank's shards and the accelerator state are written.
RankWrite(r) ==
    /\ ranks[r].pc = "writing"
    /\ ranks' = [ranks EXCEPT ![r].pc = "done"]
    /\ UNCHANGED fs

\* All ranks have entered save_state with automatic checkpoint naming, the
\* same iteration counter and the same configuration.
InitRace ==
    /\ fs \in SUBSET (0..(MaxIter - 1))
    /\ userDir = FALSE
    /\ iteration \in 0..(MaxIter - 1)
    /\ config \in {c \in SaveConfigs : c.auto /\ (~c.limited => c.total_limit = 1)}
    /\ saved = NoSave
    /\ ranks = [r \in 1..NumRanks |-> RankAtStart(iteration \in fs)]
    /\ norm = NoNormCall
    /\ loader = NoLoaderCall

NextRace ==
    /\ \E r \in 1..NumRanks :
          \/ RankListdir(r)
          \/ RankPrune(r)
          \/ RankCheckTarget(r)
          \/ RankMakedirs(r)
          \/ RankWrite(r)
    /\ UNCHANGED <<userDir, iteration, config, saved, norm, loader>>

\* ------------------------------------------------------------ specifications
\* The accelerator at rest: what the transform rules and the wrapped forwards
\* run next to.
IdlePrepare ==
    /\ acc = CHOOSE a \in Accelerators : TRUE
    /\ model = CHOOSE m \in Models : ~m.custom /\ ~m.wasPar
    /\ pc = "idle"
    /\ call = [dp |-> "None", wasPar |-> FALSE]
    /\ cpu_ids = EmptyMap
    /\ tied = FALSE
    /\ trace = <<>>
    /\ err = "none"
    /\ models = <<>>
    /\ optimizers = <<>>
    /\ cpu2xla = EmptyMap
    /\ optimizer = NoOptimizer
    /\ handed = NoOptimizer
    /\ wrapArg = NoWrap
    /\ ncalls = 0

\* No call of the normalization parallelizer, of prepare_data_loader or of a
\* save_state of several ranks.
InitExtVars ==
    /\ norm = NoNormCall
    /\ loader = NoLoaderCall
    /\ ranks = NoRanks

vars == <<prepVars, saveVars, trainVars, ruleVars, fwdVars, extVars>>

Next == NextPrepare /\ UNCHANGED <<saveVars, trainVars, ruleVars, fwdVars, extVars>>

Init == InitPrepare /\ InitSaveVars /\ InitTrainVars /\ InitRuleVars /\ InitFwdVars /\ InitExtVars

Spec == Init /\ [][Next]_vars

SaveNext == NextSave /\ UNCHANGED <<trainVars, ruleVars, fwdVars, extVars>>

SaveInit == InitSave /\ InitTrainVars /\ InitRuleVars /\ InitFwdVars /\ InitExtVars

SpecSave == SaveInit /\ [][SaveNext]_vars

TrainNext == NextTrain /\ UNCHANGED <<saveVars, ruleVars, fwdVars, extVars>>

TrainInit == InitTrain /\ InitRuleVars /\ InitFwdVars /\ InitExtVars

SpecTrain == TrainInit /\ [][TrainNext]_vars

RulesNext == NextRules /\ UNCHANGED <<prepVars, saveVars, trainVars, fwdVars, extVars>>

RulesInit == IdlePrepare /\ InitSaveVars /\ InitTrainVars /\ InitRuleVars /\ InitFwdVars /\ InitExtVars

SpecRules == RulesInit /\ [][RulesNext]_vars

FwdNext == WrappedForward /\ UNCHANGED <<prepVars, saveVars, trainVars, ruleVars, extVars>>

FwdInit == IdlePrepare /\ InitSaveVars /\ InitTrainVars /\ InitRuleVars /\ InitFwdVars /\ InitExtVars

SpecFwd == FwdInit /\ [][FwdNext]_vars

NormNext ==
    SequenceParallelizeNorms
        /\ UNCHANGED <<prepVars, saveVars, trainVars, ruleVars, fwdVars>>

NormInit == IdlePrepare /\ InitSaveVars /\ InitTrainVars /\ InitRuleVars /\ InitFwdVars /\ InitExtVars

SpecNorm == NormInit /\ [][NormNext]_vars

LoaderNext ==
    PrepareDataLoader
        /\ UNCHANGED <<prepVars, saveVars, trainVars, ruleVars, fwdVars>>

LoaderInit == IdlePrepare /\ InitSaveVars /\ InitTrainVars /\ InitRuleVars /\ InitFwdVars /\ InitExtVars

SpecLoader == LoaderInit /\ [][LoaderNext]_vars

RaceNext == NextRace /\ UNCHANGED <<prepVars, trainVars, ruleVars, fwdVars>>

RaceInit == IdlePrepare /\ InitTrainVars /\ InitRuleVars /\ InitFwdVars /\ InitRace

SpecRace == RaceInit /\ [][RaceNext]_vars

\* ------------------------------------------------------------------ claims
Last(sq) == sq[Len(sq)]
IsPrefix(a, b) == Len(a) <= Len(b) /\ \A i \in 1..Len(a) : a[i] = b[i]
ModelParams == {model.np[n] : n \in NamedParameters(model)}

\* The model-parallel preparation reached the record of the mapping.
Recorded == pc = "wrap" /\ Last(trace) = "record"
\* The check-and-record step of the model-parallel preparation raised.
RecordRaised == pc = "idle" /\ trace # <<>> /\ Last(trace) = "tie"

Retargeted == acc.dist = "MP" /\ ~model.custom

FullOrder ==
    <<"patch", "snapshot", "transform", "rekey", "move", "tie", "record", "wrap">>

\* C3 as stated: under a model-parallel topology every prepare_model call
\* that reaches the framework wrap went through all the steps, in order.
C3_AllStepsOnEveryModel ==
    (acc.dist = "MP" /\ pc = "idle" /\ trace # <<>> /\ Last(trace) = "wrap") =>
        trace = FullOrder

\* The running or last prepare_model call got a model that was neither
\* prepared, nor custom-modeling, nor already parallelized.
FreshMpCall ==
    /\ acc.dist = "MP"
    /\ ~model.custom
    /\ ~call.wasPar
    /\ trace # <<>>
    /\ trace[1] = "patch"

\* C3 amended: under a model-parallel topology, for a model that is neither
\* custom-modeling nor already parallelized, the steps happen in the stated
\* order and none is skipped unless the transform or the check raises: the
\* snapshot holds the CPU identity of every parameter when the transform is
\* invoked, the snapshot is re-keyed before the move, the model is on the
\* device and re-tied before the mapping is recorded, the mapping is
\* recorded before the framework wrap; a custom-modeling model is only moved
\* and wrapped, an already parallelized one is wrapped as it is.
C3_OrderedSteps ==
    /\ FreshMpCall => IsPrefix(trace, FullOrder)
    /\ (FreshMpCall /\ pc = "idle" /\ err = "none") => trace = FullOrder
    /\ pc = "transform" =>
            /\ DOMAIN cpu_ids = NamedParameters(model)
            /\ \A n \in NamedParameters(model) : cpu_ids[n] = model.np[n]
            /\ ~model.wasPar
    /\ pc = "move" => DOMAIN cpu_ids = ExpectedNames(model.gqa)
    /\ pc = "record" => model.onDevice /\ 0 \notin NamedParameters(model)
    /\ (pc = "wrap" /\ FreshMpCall) => 1 \in DOMAIN cpu2xla
    /\ Prepared(models, 1) => (pc = "idle" /\ wrapArg # NoWrap)
    /\ (model.custom /\ trace # <<>> /\ trace[1] = "move") =>
            IsPrefix(trace, <<"move", "wrap">>)
    /\ (acc.dist = "MP" /\ call.wasPar /\ trace # <<>> /\ trace[1] = "patch") =>
            IsPrefix(trace, <<"patch", "was_parallelized", "wrap">>)

\* A model with a tie and a GQA renaming went through all the steps.
C3_Witness ==
    /\ pc = "idle"
    /\ trace = FullOrder
    /\ tied
    /\ model.gqa # EmptyMap
    /\ Prepared(models, 1)

\* C4 as stated: on every path the model is on the device when the framework
\* preparation is reached, device placement is passed as disabled, and the
\* unsharded path never invokes the transform.
C4_PlacedOnEveryPath ==
    /\ pc \in {"wrap", "wrap_custom"} => model.onDevice
    /\ wrapArg.passed \in {"unset", "False"}
    /\ acc.dist = "DDP" =>
            /\ pc \notin {"mp", "transform", "rekey", "move", "tie", "record"}
            /\ \A i \in 1..Len(trace) : trace[i] # "transform"

\* C4 amended: the model is on the device when the framework preparation is
\* reached on the custom-modeling path, on the unsharded path and on the
\* model-parallel path of a model that was not already parallelized (an
\* already parallelized model is handed over without a move); on every path
\* device placement is passed as disabled whatever the caller gave; the
\* unsharded path never invokes the transform.
C4_PlacedBeforeWrap ==
    /\ pc = "wrap_custom" => model.onDevice
    /\ (pc = "wrap" /\ ~(acc.dist = "MP" /\ call.wasPar)) => model.onDevice
    /\ wrapArg.passed \in {"unset", "False"}
    /\ acc.dist = "DDP" =>
            /\ pc \notin {"mp", "transform", "rekey", "move", "tie", "record"}
            /\ \A i \in 1..Len(trace) : trace[i] # "transform"
            /\ cpu2xla = EmptyMap

\* An unsharded model whose caller asked for device placement was moved and
\* then wrapped with device placement disabled.
C4_Witness ==
    /\ acc.dist = "DDP"
    /\ ~model.custom
    /\ wrapArg.given = "True"
    /\ wrapArg.passed = "False"
    /\ model.onDevice
    /\ trace = <<"patch", "move", "wrap">>

\* C5: the optimizer handed to the framework wrap is a ZeRO-1 optimizer
\* exactly when the accelerator was created with zero_1.
C5_Zero1WheneverEnabled ==
    handed # NoOptimizer => (handed.kind = "zero1" <=> acc.zero_1)

\* C6: with zero_1 enabled and a mixed-precision mode other than "no" and
\* "bf16", a prepare_optimizer call that gets past the retargeting raises
\* ValueError and hands no optimizer (so no ZeRO-1 optimizer) on.
C6_UnsupportedPrecisionRaises ==
    (/\ acc.zero_1
     /\ acc.mixed \notin {"no", "bf16"}
     /\ trace = <<"prepare_optimizer">>
     /\ err # "KeyError") =>
        (err = "ValueError" /\ handed = NoOptimizer)

\* C7 as stated: with automatic checkpoint naming, a save_state call that
\* finds checkpoint_<iteration> already there raises ValueError before any
\* save function runs and without incrementing the counter, no call creates
\* a checkpoint directory that existed before the call, and a successful
\* save increments the counter by exactly one.
C7_ExistingTargetAlwaysRaises ==
    (saved.called /\ saved.auto) =>
        /\ saved.existedAtCall =>
              /\ saved.err = "ValueError"
              /\ saved.shards = <<>>
              /\ ~saved.generic.called
              /\ iteration = saved.iterBefore
        /\ saved.created => ~saved.existedAtCall
        /\ saved.err = "none" => iteration = saved.iterBefore + 1

\* C7 with the pruning counted in: with automatic checkpoint naming,
\* save_state first removes the lowest-numbered folders that total_limit has
\* no room for; if
\* checkpoint_<iteration> exists after that, the call raises ValueError
\* before any save function runs and without incrementing the counter; a
\* call only writes into a directory that did not exist at that moment; a
\* successful save increments the counter by exactly one, a failed one
\* leaves it alone.
C7_NoOverwrite ==
    (saved.called /\ saved.auto) =>
        /\ saved.existedAtCheck = (saved.existedAtCall /\ saved.target \notin saved.pruned)
        /\ saved.existedAtCheck =>
              /\ saved.err = "ValueError"
              /\ ~saved.created
              /\ saved.shards = <<>>
              /\ ~saved.generic.called
        /\ saved.created => (~saved.existedAtCheck /\ saved.target \in fs)
        /\ saved.err = "none" => iteration = saved.iterBefore + 1
        /\ saved.err # "none" => iteration = saved.iterBefore

\* The target survived the pruning of other folders and the call raised.
C7_Witness ==
    /\ saved.called /\ saved.auto
    /\ saved.pruned # {}
    /\ saved.existedAtCheck
    /\ saved.err = "ValueError"
    /\ iteration = saved.iterBefore

\* C8 as stated: under model parallelism a save_state call that returns has
\* invoked the sharded save exactly once for every prepared model, with its
\* optimizer or with none when no optimizer was prepared, and has handed no
\* weights and no optimizers to the generic state saver.
C8_EveryModelSavedOnce ==
    (saved.called /\ saved.err = "none") =>
        /\ Len(saved.shards) = Len(models)
        /\ \A i \in 1..Len(models) :
              /\ saved.shards[i].model = models[i]
              /\ saved.shards[i].optimizer =
                    IF optimizers = <<>> THEN NoOptimizer ELSE optimizers[i]
        /\ saved.generic.called
        /\ saved.generic.weights = <<>>
        /\ saved.generic.optimizers = <<>>

\* The accumulation step count the accelerator was asked for.
N == Requested(ctor)

\* C9: an accelerator built with gradient_accumulation_steps = N, as an
\* integer or through a plugin, keeps N as its accumulation step count;
\* backward back-propagates the loss divided by N; and under accumulate()
\* the parameters differ from those the training step began with only in a
\* step whose 1-based index is a multiple of N.
C9_AccumulationBoundary ==
    /\ gas = N
    /\ backwardArg # NoBackward => backwardArg.scaled * N = backwardArg.loss
    /\ (step % N # 0) => params = orig
    /\ params # orig => (sync /\ step > 0 /\ phase \in {"stepped", "zeroed", "idle"})

\* An accelerator built through a plugin with N > 1 whose N-th step changed
\* the parameters after N - 1 steps that did not.
C9_Witness ==
    /\ ctor.plugin /\ N > 1
    /\ step = N
    /\ phase = "zeroed"
    /\ backwardArg.loss = 2 * N /\ backwardArg.scaled = 2
    /\ orig = Zeros
    /\ params # orig

PostponedClipping ==
    /\ (phase = "clipped" /\ clipCall.postponed /\ Len(optimizers) = 1) =>
          /\ clipCall.err = "none"
          /\ grads = clipCall.before
          /\ optimizers[1].clip = clipCall.given
    /\ (clipCall.called /\ clipCall.postponed /\ Len(optimizers) > 1) =>
          /\ clipCall.err = "RuntimeError"
          /\ phase = "clipped" => grads = clipCall.before
          /\ \A i \in 1..Len(optimizers) : optimizers[i].clip = NoClip
    /\ (phase = "stepped" /\ sync /\ clipCall.postponed /\ Len(optimizers) = 1) =>
          /\ applied.done
          /\ applied.clip = clipCall.given
          /\ WithinNorm(grads, ParamIds, clipCall.given.max_norm, clipCall.given.norm_type)
          /\ optimizers[1].clip = NoClip
    /\ (phase = "zeroed" /\ sync) => grads = Zeros

\* C10 as stated: a postponed clip_grad_norm_ with exactly one prepared
\* optimizer leaves the gradients alone and registers (parameters, max_norm,
\* norm_type) on that optimizer; after the update step that follows, the
\* gradient norm is at most max_norm; zero_grad on an update step leaves
\* every gradient zero; with more than one prepared optimizer the call
\* raises RuntimeError and no optimizer has anything registered.
C10_PostponedClipping == PostponedClipping

\* C10 for an accelerator without ZeRO-1.
C10_PlainOptimizer == ~acc.zero_1 => PostponedClipping

\* An update step that had to scale the gradients down to the registered
\* max_norm.
C10_Witness ==
    /\ phase = "stepped" /\ sync
    /\ Len(optimizers) = 1
    /\ clipCall.postponed /\ clipCall.err = "none"
    /\ applied.done
    /\ ~WithinNorm(applied.before, ParamIds, applied.clip.max_norm, applied.clip.norm_type)
    /\ WithinNorm(grads, ParamIds, applied.clip.max_norm, applied.clip.norm_type)
    /\ grads # Zeros

\* ------------------------------------------------ transform rules: the claims
\* The call record _transform worked on, rebuilt from the call and its outcome.
RuleCall ==
    [cls |-> ruleIn.cls, m |-> ruleIn.m, orig |-> ruleIn.layer, tp |-> ruleIn.tp,
     seq_par |-> ruleIn.seq_par, main_worker |-> ruleIn.main_worker,
     kwargs |-> ruleOut.kwargs]

\* _transform of the given rule kind ran (the predicate did not reject the layer).
Applied(kind) == ruleIn.kind = kind /\ ruleOut.applied

\* Position of the first event (op, attr) in a run, 0 when there is none.
EventIndex(events, op, attr) ==
    LET S == {i \in 1..Len(events) : events[i].op = op /\ events[i].attr = attr}
    IN IF S = {} THEN 0 ELSE CHOOSE i \in S : \A j \in S : i <= j

\* Both events happened, the first before the second.
Before(events, op1, attr1, op2, attr2) ==
    /\ EventIndex(events, op1, attr1) > 0
    /\ EventIndex(events, op1, attr1) < EventIndex(events, op2, attr2)

\* The declarations are consistent and the layer has the attributes the
\* rule reads.
WellFormedAttention ==
    /\ DeclaredTogether(ruleIn.cls)
    /\ ruleIn.layer.has_num_attention_heads
    /\ ruleIn.layer.has_all_head_size

\* The head counts do not fit the shard count.
HeadsIncompatible ==
    \/ ruleIn.layer.num_attention_heads % ruleIn.tp # 0
    \/ ruleIn.cls.kvName /\ ~KvCompatible(ruleIn.layer.num_key_value_heads, ruleIn.tp)

\* C11 as stated: for every attention layer whose attention-head count (or
\* key/value-head count) does not fit the shard count, the separate-QKV rule
\* raises and never writes a truncated per-rank head count.
C11_IncompatibleHeadsRaise ==
    (Applied("attention") /\ WellFormedAttention /\ HeadsIncompatible) =>
        /\ ruleOut.run.err # "none"
        /\ ruleOut.run.layer.num_attention_heads = ruleIn.layer.num_attention_heads

\* The rule returned normally and left the layer with a truncated head count.
C11_Witness ==
    /\ Applied("attention") /\ WellFormedAttention
    /\ ruleOut.run.err = "none"
    /\ ruleIn.layer.num_attention_heads % ruleIn.tp # 0
    /\ ruleOut.run.layer.num_attention_heads * ruleIn.tp < ruleIn.layer.num_attention_heads

\* C12: whenever the key/value-head name and the key/value-group name are
\* not declared together, the self-attention rule raises the configuration
\* error (AttributeError) before it modifies any attribute of the layer.
C12_DeclaredTogetherOrRaise ==
    (Applied("attention") /\ ~DeclaredTogether(ruleIn.cls)) =>
        /\ ruleOut.run.err = "AttributeError"
        /\ ruleOut.run.layer = ruleIn.layer
        /\ ruleOut.run.events = <<Event("raise", "AttributeError", "none")>>

\* A rule class that declares the key/value-head name alone, applied to a
\* layer the rule could otherwise have transformed.
C12_Witness ==
    /\ Applied("attention")
    /\ ruleIn.cls.kvName /\ ~ruleIn.cls.groupsName /\ ruleIn.cls.outName
    /\ ruleIn.layer.has_num_attention_heads /\ ruleIn.layer.has_all_head_size
    /\ ruleIn.layer.num_attention_heads % ruleIn.tp = 0 /\ ruleIn.tp > 1
    /\ ruleOut.run.err = "AttributeError"

\* The number of embeddings is not a multiple of the shard count.
EmbeddingsIndivisible == ruleIn.layer.embedding.features % ruleIn.tp # 0

\* The skip warning is the only effect of the run.
WarningOnly == ruleOut.run.events = <<Event("log", "warning", "skipped")>>

\* C13 as stated: when the number of embeddings is not divisible by the
\* shard count the embedding rule returns the same layer, replaces neither
\* the embedding nor a tied LM head, logs a warning and raises no error, for
\* every model.
C13_SkipAlwaysWarns ==
    (Applied("embedding") /\ EmbeddingsIndivisible) =>
        /\ ruleOut.run.err = "none"
        /\ ruleOut.run.layer = ruleIn.layer
        /\ WarningOnly

\* C13, amended: when the number of embeddings is not divisible by the shard
\* count and the embedding name can be inferred for the model's class, the
\* rule returns the same layer with neither the embedding nor a tied LM head
\* replaced and raises no error; the warning is logged on the main worker
\* only. When EMBEDDING_NAME is a dictionary with neither the model's class
\* nor a default, the rule raises ValueError before it looks at the sizes.
C13_SkipWhenIndivisible ==
    (Applied("embedding") /\ EmbeddingsIndivisible) =>
        /\ ruleOut.run.layer = ruleIn.layer
        /\ EmbeddingNameKnown(ruleIn.cls) =>
              /\ ruleOut.run.err = "none"
              /\ ruleIn.main_worker => WarningOnly
              /\ ~ruleIn.main_worker => ruleOut.run.events = <<>>
        /\ ~EmbeddingNameKnown(ruleIn.cls) => ruleOut.run.err = "ValueError"

\* An indivisible vocabulary on the main worker, with a weight map and a
\* tied LM head the rule would otherwise have sharded.
C13_Witness ==
    /\ Applied("embedding") /\ EmbeddingsIndivisible
    /\ EmbeddingNameKnown(ruleIn.cls) /\ ModelHasLmHead(RuleCall)
    /\ ruleIn.m.weight_map /\ ruleIn.main_worker
    /\ WarningOnly
    /\ ruleOut.run.layer.lm_head.kind = "linear"

\* The layer holds the fused projection.
Fused == ruleOut.run.layer.qkv_proj.kind = "gqa"

\* The query, key and value projections are column-sharded one by one, their
\* outputs left partitioned.
ShardedSeparately ==
    \A name \in {"query", "key", "value"} :
        /\ ruleOut.run.layer[name].kind = "column"
        /\ ~ruleOut.run.layer[name].gather_output

\* The sharding primitives accept every projection of the layer.
PrimitivesAccept ==
    /\ \A name \in {"query", "key", "value", "output_projection"} :
          CanShard(ruleIn.layer[name], ruleIn.tp)
    /\ (ruleIn.cls.kvName /\ ruleIn.layer.num_key_value_heads < ruleIn.tp) =>
          GqaCompatible(ruleIn.layer.num_attention_heads, ruleIn.layer.num_key_value_heads,
                        KvSizeMultiplier(RuleCall), ruleIn.tp)

\* C14 as stated: the rule takes the fused path exactly when a key/value-head
\* name is declared and the key/value-head count is below the shard count; in
\* every other case it column-shards query, key and value individually with
\* the output left partitioned.
C14_FusedOrSeparate ==
    (Applied("attention") /\ WellFormedAttention /\ PrimitivesAccept) =>
        IF ruleIn.cls.kvName /\ ruleIn.layer.num_key_value_heads < ruleIn.tp
        THEN Fused
        ELSE ~Fused /\ ShardedSeparately

\* C14, amended: whenever the rule returns, it took the fused path exactly
\* when a key/value-head name is declared and the key/value-head count is
\* below the shard count, and otherwise column-sharded query, key and value
\* individually with the output left partitioned; when a key/value-head name
\* is declared and neither of the key/value-head count and the shard count
\* divides the other, the rule raises ValueError and shards nothing.
C14_FusedOrSeparateOrRaise ==
    Applied("attention") =>
        /\ ruleOut.run.err = "none" =>
              IF ruleIn.cls.kvName /\ ruleIn.layer.num_key_value_heads < ruleIn.tp
              THEN Fused /\ ruleOut.run.layer.query.kind = "proxy"
              ELSE ~Fused /\ ShardedSeparately
        /\ (/\ WellFormedAttention
            /\ ruleIn.cls.kvName
            /\ ~KvCompatible(ruleIn.layer.num_key_value_heads, ruleIn.tp)) =>
              /\ ruleOut.run.err = "ValueError"
              /\ ruleOut.run.layer = ruleIn.layer

\* The fused path, taken for fewer key/value heads than shards.
C14_Witness ==
    /\ Applied("attention") /\ ruleOut.run.err = "none"
    /\ ruleIn.cls.kvName /\ ruleIn.layer.num_key_value_heads < ruleIn.tp
    /\ Fused

\* C15: after the fused path ran on an attention layer, the layer holds one
\* fused column-sharded projection under the fused-projection name, and its
\* query, key and value attributes are proxies with output indices 0, 1 and
\* 2, each resolving to that same layer's fused projection; the fused
\* projection's weights are loaded (from the original query, key and value
\* layers or from the checkpoint, unless loading is skipped) before the
\* original attributes are replaced by the proxies.
C15_FusedProjectionAndProxies ==
    (Applied("attention") /\ ruleOut.run.err = "none" /\ NeedsGqa(RuleCall)) =>
        LET layer == ruleOut.run.layer
            events == ruleOut.run.events
        IN /\ layer.qkv_proj.kind = "gqa" /\ ~layer.qkv_proj.gather_output
           /\ layer.query.kind = "proxy" /\ layer.query.index = 0
           /\ layer.key.kind = "proxy" /\ layer.key.index = 1
           /\ layer.value.kind = "proxy" /\ layer.value.index = 2
           /\ \A name \in {"query", "key", "value"} :
                 /\ layer[name].owner = ruleIn.layer.id
                 /\ layer[name].fused = "qkv_proj"
                 /\ Before(events, "load_gqa", "qkv_proj", "setattr", name)
           /\ Before(events, "setattr", "qkv_proj", "load_gqa", "qkv_proj")
           /\ ~ruleOut.kwargs.skip_linear_weight_load =>
                 layer.qkv_proj.weight =
                     IF ruleIn.m.weight_map THEN "fused_from_checkpoint"
                     ELSE "fused_from_original"

\* The fused path on a model without a weight map: the weights can only come
\* from the original query, key and value layers.
C15_Witness ==
    /\ Applied("attention") /\ ruleOut.run.err = "none" /\ NeedsGqa(RuleCall)
    /\ ~ruleIn.m.weight_map /\ ~ruleOut.kwargs.skip_linear_weight_load
    /\ ruleOut.run.layer.qkv_proj.weight = "fused_from_original"
    /\ ruleOut.run.layer.value.index = 2

\* C16: whenever an output projection is declared, the self-attention rule
\* replaces it with a row-sharded layer that expects parallel input, on the
\* plain path and on the fused path; on the fused path, weight loading not
\* skipped, the new layer's weight is marked uninitialized and then
\* repopulated from the original output projection (still attached to the
\* layer at that moment) or from the checkpoint, before the new layer is
\* installed, so the installed projection never holds the stale slice.
C16_OutputProjectionRowSharded ==
    (Applied("attention") /\ ruleOut.run.err = "none" /\ ruleIn.cls.outName) =>
        LET out == ruleOut.run.layer.output_projection
            events == ruleOut.run.events
        IN /\ out.kind = "row" /\ out.input_is_parallel
           /\ (NeedsGqa(RuleCall) /\ ~ruleOut.kwargs.skip_linear_weight_load) =>
                 /\ out.weight = IF ruleIn.m.weight_map THEN "reordered_from_checkpoint"
                                 ELSE "reordered_from_original"
                 /\ Before(events, "mark_uninitialized", "output_projection",
                           "load_output", "output_projection")
                 /\ Before(events, "load_output", "output_projection",
                           "setattr", "output_projection")

\* The fused path with an output projection and no weight map.
C16_Witness ==
    /\ Applied("attention") /\ ruleOut.run.err = "none" /\ ruleIn.cls.outName
    /\ NeedsGqa(RuleCall) /\ ~ruleOut.kwargs.skip_linear_weight_load
    /\ ~ruleIn.m.weight_map
    /\ ruleOut.run.layer.output_projection.kind = "row"
    /\ ruleOut.run.layer.output_projection.weight = "reordered_from_original"

\* C17: the cross-entropy rule leaves the layer untouched and the loss
\* unpatched for a regression or multi-label model or when no projection
\* name is declared for the model; patches only the loss when the projection
\* is already column-sharded; raises ValueError without patching when it is
\* row-sharded; and otherwise replaces the projection by a column-sharded
\* one with gather_output False and sequence parallelism disabled, then
\* patches the loss.
C17_CrossEntropyTable ==
    Applied("cross_entropy") =>
        LET before == ruleIn.layer.projection
            run == ruleOut.run
        IN CASE ~ProjectionName(ruleIn.cls) \/ ~Eligible(ruleIn.m) ->
                    run = Run(ruleIn.layer)
             [] OTHER ->
                    CASE before.kind = "column" ->
                            /\ run.err = "none" /\ run.layer = ruleIn.layer
                            /\ run.loss_patched
                      [] before.kind = "row" ->
                            /\ run.err = "ValueError" /\ run.layer = ruleIn.layer
                            /\ ~run.loss_patched
                      [] OTHER ->
                            CanShard(before, ruleIn.tp) =>
                                /\ run.err = "none"
                                /\ run.layer.projection.kind = "column"
                                /\ ~run.layer.projection.gather_output
                                /\ ~run.layer.projection.sequence_parallel
                                /\ run.loss_patched
                                /\ Before(run.events, "setattr", "projection",
                                          "patch", "cross_entropy")

\* A dense projection replaced while sequence parallelism is enabled.
C17_Witness ==
    /\ Applied("cross_entropy") /\ ruleIn.seq_par /\ ruleIn.tp > 1
    /\ ruleIn.layer.projection.kind = "linear"
    /\ ruleOut.run.layer.projection.kind = "column"
    /\ ~ruleOut.run.layer.projection.sequence_parallel
    /\ ruleOut.run.loss_patched

\* The options the caller gave that the rule does not declare.
Unrecognized == DOMAIN ruleIn.given \ DOMAIN DeclaredKwargs(ruleIn.kind)

\* C18 as stated: for every rule and every set of keyword options, the
\* options outside the rule's declared set are ignored with a warning (never
\* an error) and never reach _transform, and every declared option reaches
\* _transform with the caller's value, or its declared default.
C18_UnrecognizedOptionsWarn ==
    ruleIn.kind # "idle" =>
        /\ DOMAIN ruleOut.kwargs = DOMAIN DeclaredKwargs(ruleIn.kind)
        /\ \A k \in DOMAIN ruleOut.kwargs :
              ruleOut.kwargs[k] = IF k \in DOMAIN ruleIn.given THEN ruleIn.given[k]
                                  ELSE DeclaredKwargs(ruleIn.kind)[k]
        /\ Unrecognized # {} =>
              ruleOut.log = <<[level |-> "warning", names |-> Unrecognized]>>

\* An undeclared option, dropped with a message at debug level.
C18_Witness ==
    /\ ruleIn.kind = "cross_entropy"
    /\ Unrecognized = {"gather_output", "kv_size_multiplier"}
    /\ DOMAIN ruleOut.kwargs = {"skip_linear_weight_load"}
    /\ ruleOut.log = <<[level |-> "debug", names |-> Unrecognized]>>

\* ---------------------------------------------- boundary collectives: the claims
\* The operations the activation went through, in order.
History == fwdOut.output.elems[1].history

\* C19 as stated: the wrapped forward transposes the activation, applies the
\* collective and transposes back, before the original forward for io=input
\* and after it for io=output.
C19_TransposeCollectiveTranspose ==
    fwdIn.called =>
        History = IF fwdIn.decl.io = "input"
                  THEN <<"transpose", fwdIn.decl.collective_op, "transpose", "forward">>
                  ELSE <<"forward", "transpose", fwdIn.decl.collective_op, "transpose">>

\* C19, amended: the wrapped forward applies one transpose and the
\* collective to the activation (transpose then scatter, or gather then
\* transpose), before the original forward for io=input and after it for
\* io=output; the activation is not transposed back, so what leaves a
\* wrapper has its first two axes swapped.
C19_OneTransposePerWrapper ==
    fwdIn.called =>
        LET ops == IF fwdIn.decl.collective_op = "scatter" THEN <<"transpose", "scatter">>
                   ELSE <<"gather", "transpose">>
        IN /\ History = IF fwdIn.decl.io = "input" THEN ops \o <<"forward">>
                        ELSE <<"forward">> \o ops
           /\ fwdOut.output.elems[1].layout # fwdIn.args[1].layout

\* A gather on the output of a layer whose forward returns a tuple.
C19_Witness ==
    /\ fwdIn.called
    /\ fwdIn.decl.collective_op = "gather" /\ fwdIn.decl.io = "output"
    /\ fwdIn.outputs > 1
    /\ History = <<"forward", "gather", "transpose">>

\* C20: the wrapped forward keeps the original forward's return contract (a
\* single tensor stays a single tensor; a tuple stays a tuple of the same
\* length whose first element is the processed tensor and whose other
\* elements are the original ones), and the positional arguments after the
\* activation and all keyword arguments reach the original forward unchanged.
C20_ReturnContract ==
    fwdIn.called =>
        LET original == OrigForward(fwdIn.args, fwdIn.kwargs, fwdIn.outputs).output
        IN /\ fwdOut.output.tuple = original.tuple
           /\ Len(fwdOut.output.elems) = Len(original.elems)
           /\ Tail2(fwdOut.output.elems) = Tail2(original.elems)
           /\ \E i \in 1..Len(History) : History[i] = fwdIn.decl.collective_op
           /\ Tail2(fwdOut.received.args) = Tail2(fwdIn.args)
           /\ Len(fwdOut.received.args) = Len(fwdIn.args)
           /\ fwdOut.received.kwargs = fwdIn.kwargs

\* A scatter on the output of a forward that returns a three-element tuple
\* and was called with extra positional and keyword arguments.
C20_Witness ==
    /\ fwdIn.called
    /\ fwdIn.decl.collective_op = "scatter" /\ fwdIn.decl.io = "output"
    /\ fwdIn.outputs = MaxOutputs
    /\ Len(fwdIn.args) = 1 + MaxExtraArgs /\ fwdIn.kwargs # {}
    /\ Len(fwdOut.output.elems) = MaxOutputs
    /\ fwdOut.output.elems[1].seq = "slice"

\* ------------------------------------------------ save_state: total_limit
\* C30: with automatic checkpoint naming and a total_limit L >= 1, after
\* every successful save of any sequence of saves the checkpoints directory
\* holds at most L checkpoint folders, the checkpoint just written is among
\* them, and the folders removed to make room are those with the lowest
\* iteration numbers.
C30_AtMostLimitFolders ==
    (saved.called /\ saved.auto /\ config.limited /\ saved.err = "none") =>
        /\ Cardinality(fs) <= config.total_limit
        /\ saved.target \in fs
        /\ \A d \in saved.pruned : d \notin fs \ {saved.target}
        /\ \A d \in saved.pruned, k \in fs \ {saved.target} : d < k

\* A save that found more folders than the limit allows and removed several.
C30_Witness ==
    /\ saved.called /\ saved.auto /\ config.limited /\ saved.err = "none"
    /\ Cardinality(saved.pruned) > 1
    /\ Cardinality(fs) = config.total_limit
    /\ saved.target \in fs

\* ------------------------------------------------ prepare_model: the mapping
\* C22: after a successful model-parallel prepare_model the recorded mapping
\* associates, for every parameter name of the prepared model, the CPU
\* identity the parameter had before the transform (found under its GQA
\* name) with the on-device parameter of that name; re-keying the snapshot
\* through the GQA renaming loses no entry and changes no identity, for
\* every renaming the transform can report.
C22_MappingThroughGqaNames ==
    /\ (pc = "move") =>
          /\ DOMAIN cpu_ids = {DictGet(model.gqa, o) : o \in OrigNames}
          /\ Cardinality(DOMAIN cpu_ids) = NumParams
          /\ \A o \in OrigNames : cpu_ids[DictGet(model.gqa, o)] = CpuObj(o)
    /\ (1 \in DOMAIN cpu2xla) =>
          \A n \in NamedParameters(model) :
              \E o \in OrigNames :
                  /\ DictGet(model.gqa, o) = n
                  /\ CpuObj(o) \in DOMAIN cpu2xla[1]
                  /\ cpu2xla[1][CpuObj(o)] = model.np[n]

\* A prepared model whose transform fused every parameter under a new name
\* and whose parameters were replaced by the move to the device.
C22_Witness ==
    /\ pc = "idle" /\ err = "none" /\ Prepared(models, 1)
    /\ 1 \in DOMAIN cpu2xla
    /\ model.gqa = FuseLast(NumParams)
    /\ ~acc.inplace
    /\ \A o \in OrigNames : cpu2xla[1][CpuObj(o)] = DevOf(ParObj(o + NumParams))

\* The last call was a prepare_model call that raised.
PrepareModelRaised == pc = "idle" /\ err # "none" /\ trace # <<"prepare_optimizer">>

\* C23: when prepare_model raises (the parameter-set mismatch, or a fatal
\* configuration error of a transform rule) the model is not added to the
\* accelerator's prepared models and no CPU-identity to device-parameter
\* mapping is recorded for it.
C23_NothingRecordedOnFailure ==
    PrepareModelRaised =>
        /\ \A i \in 1..Len(models) : models[i] # 1
        /\ 1 \notin DOMAIN cpu2xla

\* The name check failed after the transform, the move and the tie ran.
C23_Witness ==
    /\ PrepareModelRaised /\ err = "ValueError"
    /\ model.wasPar /\ model.onDevice
    /\ models = <<>> /\ cpu2xla = EmptyMap

\* C24: prepare_model on a model that is already among the prepared models
\* returns it without patching, parallelizing, moving or wrapping it again;
\* and the model-parallel preparation returns an already parallelized model
\* unchanged and records no mapping entry.
C24_Idempotent ==
    [][/\ (ncalls' = ncalls + 1 /\ \E i \in 1..Len(models) : models[i] = 1) =>
             /\ trace' = <<"already_prepared">>
             /\ pc' = "idle" /\ err' = "none"
             /\ model' = model /\ models' = models
             /\ cpu2xla' = cpu2xla /\ wrapArg' = wrapArg
       /\ (pc = "mp" /\ pc' # "mp" /\ model.wasPar) =>
             /\ pc' = "wrap"
             /\ model' = model
             /\ cpu_ids' = cpu_ids /\ cpu2xla' = cpu2xla]_vars

\* A second prepare_model call on the model the first one prepared.
C24_Witness ==
    /\ ncalls = 2 /\ pc = "idle"
    /\ trace = <<"already_prepared">>
    /\ models = <<1>> /\ 1 \in DOMAIN cpu2xla

\* -------------------------------------------- transform rules: the head counts
\* The self-attention rule returned normally.
AttentionSucceeded == Applied("attention") /\ ruleOut.run.err = "none"

\* What the rule leaves in the key/value-head and key/value-group counts.
KvCountsAfter ==
    LET before == ruleIn.layer
        after == ruleOut.run.layer
        tp == ruleIn.tp
        mult == KvSizeMultiplier(RuleCall)
    IN /\ (ruleIn.cls.kvName /\ ~Fused) =>
             /\ after.num_key_value_heads = before.num_key_value_heads \div tp
             /\ after.num_key_value_groups = before.num_key_value_groups
       /\ Fused =>
             /\ after.num_key_value_heads = (before.num_key_value_heads * mult) \div tp
             /\ after.num_key_value_heads > 0
             /\ (ruleOut.kwargs.kv_size_multiplier = NoMultiplier) =>
                    after.num_key_value_heads = 1
             /\ after.num_key_value_groups =
                    after.num_attention_heads \div after.num_key_value_heads

\* C25 as stated: after the self-attention rule succeeds the attention-head
\* count and the all-head-size of the layer are their original values divided
\* by the shard count (each rank holds whole heads); off the fused path the
\* key/value-head count is original // shard count and the group count is
\* unchanged; on the fused path the key/value-head count is
\* (kv_heads * kv_size_multiplier) // shard_count, positive, and 1 when the
\* multiplier was derived, and the group count is per-rank heads // per-rank
\* key/value heads.
C25_HeadCountsDivided ==
    AttentionSucceeded =>
        /\ ruleOut.run.layer.num_attention_heads * ruleIn.tp = ruleIn.layer.num_attention_heads
        /\ ruleOut.run.layer.all_head_size * ruleIn.tp = ruleIn.layer.all_head_size
        /\ KvCountsAfter

\* What the code computes: the same with floor division for the head count
\* and the all-head-size.
C25_HeadCountsFloorDivided ==
    AttentionSucceeded =>
        /\ ruleOut.run.layer.num_attention_heads
               = ruleIn.layer.num_attention_heads \div ruleIn.tp
        /\ ruleOut.run.layer.all_head_size = ruleIn.layer.all_head_size \div ruleIn.tp
        /\ KvCountsAfter

\* The rule succeeded on a layer whose heads the shard count does not divide:
\* the per-rank head count times the head size is not the per-rank
\* all-head-size.
C25_Witness ==
    /\ AttentionSucceeded /\ ~Fused
    /\ ruleIn.layer.num_attention_heads = 3 /\ ruleIn.tp = 2
    /\ ruleIn.layer.all_head_size = 6
    /\ ruleOut.run.layer.num_attention_heads = 1
    /\ ruleOut.run.layer.all_head_size = 3

\* The rule needs the fused projection and nothing but the head-count name
\* stands in its way.
FusedPathOpen ==
    /\ Applied("attention") /\ WellFormedAttention /\ PrimitivesAccept
    /\ ruleIn.cls.kvName /\ ruleIn.layer.num_key_value_heads < ruleIn.tp

\* The key/value-head count passes the test of _transform.
KvHeadsAccepted ==
    ruleIn.cls.kvName => KvCompatible(ruleIn.layer.num_key_value_heads, ruleIn.tp)

\* C26 as stated: when the rule leaves NUM_ATTENTION_HEADS_NAME undeclared the
\* head count is read and rewritten through the name of the normalized
\* config, on the per-projection path and on the fused path alike.
C26_UndeclaredHeadsNameResolved ==
    (Applied("attention") /\ WellFormedAttention /\ ~ruleIn.cls.headsName) =>
        /\ ruleOut.run.err # "TypeError"
        /\ ((PrimitivesAccept /\ KvHeadsAccepted) =>
              /\ ruleOut.run.err = "none"
              /\ EventIndex(ruleOut.run.events, "setattr", "num_attention_heads") > 0
              /\ ruleOut.run.layer.num_attention_heads
                     = ruleIn.layer.num_attention_heads \div ruleIn.tp)

\* The per-projection half of C26: there the resolved name is used.
C26_PlainPathResolved ==
    (Applied("attention") /\ WellFormedAttention /\ ~ruleIn.cls.headsName
        /\ PrimitivesAccept /\ KvHeadsAccepted /\ ~NeedsGqa(RuleCall)) =>
        /\ ruleOut.run.err = "none"
        /\ EventIndex(ruleOut.run.events, "setattr", "num_attention_heads") > 0
        /\ ruleOut.run.layer.num_attention_heads
               = ruleIn.layer.num_attention_heads \div ruleIn.tp

\* The fused path with the name undeclared: a TypeError, the head count not
\* rewritten.
C26_Witness ==
    /\ FusedPathOpen /\ ~ruleIn.cls.headsName
    /\ ruleOut.run.err = "TypeError"
    /\ ruleOut.run.layer.num_attention_heads = ruleIn.layer.num_attention_heads

\* ----------------------------------------- transform rules: the embedding weight
\* The embedding rule sharded the embedding.
EmbeddingSharded ==
    /\ Applied("embedding") /\ ruleOut.run.err = "none"
    /\ ruleOut.run.layer.embedding.kind = "parallel_embedding"

\* The model's weight map has the embedding's fully-qualified weight name.
MapHasEmbeddingWeight == ruleIn.m.weight_map /\ EmbeddingWeightName \in ruleIn.m.keys

\* C27 as stated: in the embedding rule, whenever the model's weight map
\* contains the embedding's fully-qualified weight name the weight
\* information for that name is passed to the sharding primitive (the
\* embedding is loaded from the checkpoint); when the map does not contain
\* it, no weight information is passed and no lookup error is raised.
C27_EmbeddingWeightInfoPassed ==
    /\ EmbeddingSharded =>
          ruleOut.run.layer.embedding.weight =
              IF MapHasEmbeddingWeight THEN "rows_of_checkpoint" ELSE "rows_of_original"
    /\ (Applied("embedding") /\ ~MapHasEmbeddingWeight) => ruleOut.run.err # "KeyError"

\* The second half of C27: without the name in the map nothing is passed and
\* nothing is raised for it.
C27_NoInfoNoLookupError ==
    /\ (EmbeddingSharded /\ ~MapHasEmbeddingWeight) =>
          ruleOut.run.layer.embedding.weight = "rows_of_original"
    /\ (Applied("embedding") /\ ~MapHasEmbeddingWeight) => ruleOut.run.err # "KeyError"

\* The map has the embedding's weight and the embedding was sharded from the
\* original weight all the same.
C27_Witness ==
    /\ EmbeddingSharded /\ MapHasEmbeddingWeight
    /\ ruleOut.run.layer.embedding.weight = "rows_of_original"

\* ------------------------------------------ normalization layers: the claim
\* Module i of the call is matched by at least one pattern.
NormMatched(i) == \E p \in 1..Len(norm.patterns) : i \in norm.patterns[p]

\* The method of the requested flavour raises on module i as it was given.
NormRefused(i) ==
    /\ NormMatched(i)
    /\ IF norm.flavour = "regular" THEN ~IsLayerNorm(norm.before[i])
       ELSE ~norm.before[i].affine

\* The first matched module the method raises on, 0 when there is none.
FirstRefused ==
    LET S == {i \in 1..MaxModules : NormRefused(i)}
    IN IF S = {} THEN 0 ELSE CHOOSE i \in S : \A j \in S : i <= j

PipelineLoaderCall ==
    loader.called /\ loader.dist = "MP" /\ loader.pp > 1 /\ loader.procs > 1

\* C28 as stated: under model parallelism with a pipeline-parallel size
\* above 1 and more than one process, every dataloader prepare_data_loader
\* returns drops the last incomplete batch, whatever the sampler and the
\* drop_last of the dataloader it was given.
C28_PipelineDropsLast ==
    PipelineLoaderCall => loader.returned.drop_last

\* What the code does: the same for every dataloader whose sampler is not
\* already a DistributedSampler.
C28_DropsLastUnlessDistributedSampler ==
    (PipelineLoaderCall /\ loader.given.sampler.kind # "DistributedSampler") =>
        /\ loader.returned.drop_last
        /\ loader.returned.sampler.kind = "DistributedSampler"

\* A dataloader with a DistributedSampler and drop_last off comes back as it
\* was, after the warning that drop_last is forced.
C28_Witness ==
    /\ PipelineLoaderCall /\ loader.warned_drop_last
    /\ loader.given.sampler.kind = "DistributedSampler"
    /\ ~loader.given.drop_last
    /\ loader.returned = loader.given
    /\ ~loader.returned.drop_last

\* ------------------------------------------ save_state on several ranks: the claim
\* C29 as stated: when all ranks call save_state together with automatic
\* checkpoint naming over one file system and checkpoint_<iteration> does not
\* exist before the call, then under every interleaving no rank fails with
\* the 'already exists' ValueError because another rank created the
\* directory first, and no rank deletes a directory another rank is writing
\* to.
C29_NoRankFailsOrClobbers ==
    \A r \in DOMAIN ranks :
        ~ranks[r].existedAtCall =>
            /\ ranks[r].err # "ValueError"
            /\ ~ranks[r].clobbered

\* One rank created the directory and is through with it; the other found it
\* and raised.
C29_Witness ==
    \E r \in DOMAIN ranks, o \in DOMAIN ranks :
        /\ r # o
        /\ ~ranks[r].existedAtCall
        /\ ranks[r].err = "ValueError"
        /\ ranks[o].pc = "done"

\* With total_limit = 1 a rank that lists the directory after another rank
\* created the checkpoint removes it while that rank writes.
C29_ClobberReached ==
    \E r \in DOMAIN ranks, o \in DOMAIN ranks :
        /\ r # o
        /\ ~ranks[r].existedAtCall
        /\ ranks[r].clobbered
        /\ ranks[o].pc = "writing"
        /\ iteration \notin fs
====
